---- MODULE Spec2Model ----
(***************************************************************************)
(* Cluster members manager (cluster/members_manager.cc): node-id registry, *)
(* join handling, controller-command application, raft0 configuration      *)
(* reconciliation, connection cache and update queue.                      *)
(*                                                                         *)
(* The model follows the home shard of one node ("self").  The consensus   *)
(* layer (raft0), the members table, the connection cache helpers and the  *)
(* allocator / drain manager are collaborators whose code is outside       *)
(* members_manager.cc; they are modelled at their interface.               *)
(***************************************************************************)
EXTENDS Integers, Sequences, FiniteSets, TLC

\* ------------------------------------------------------------------ bounds
\* node uuids that can appear in requests and commands: 1..NumUuids
NumUuids == 2
\* small node ids used by requests and commands: 1..MaxNodeId (self is 0)
MaxNodeId == 2
\* controller-log offsets run 0..MaxOffset
MaxOffset == 4
\* rpc addresses 1..NumAddrs
NumAddrs == 2
\* shards of the local process
NumShards == 2
\* attempts of a client-side retry loop that are counted (the loops go on)
MaxAttempts == 3
\* join requests handled concurrently
MaxJoins == 2
\* committed batches waiting to be applied
MaxPending == 2
\* capacity of the update queue (the program's value is 100)
max_updates_queue_size == 2

\* --------------------------------------------------------------- constants
INT_MAX == 2147483647
unassigned_node_id == -1
SelfId == 0
uuid_length == 16

\* ----------------------------------------------------------------- helpers
None == <<>>
Some(x) == <<x>>
HasValue(o) == o /= <<>>
Value(o) == o[1]

Max(a, b) == IF a >= b THEN a ELSE b

\* std::map / absl::flat_hash_map emplace: no effect when the key is present
Emplace(m, k, v) ==
    IF k \in DOMAIN m THEN m
    ELSE [x \in DOMAIN m \cup {k} |-> IF x = k THEN v ELSE m[x]]

\* insert or overwrite
Put(m, k, v) == [x \in DOMAIN m \cup {k} |-> IF x = k THEN v ELSE m[x]]

Erase(m, k) == [x \in DOMAIN m \ {k} |-> m[x]]

Range(f) == {f[x] : x \in DOMAIN f}

UUIDs == 1..NumUuids
SmallIds == 1..MaxNodeId
NodeIds == {SelfId} \cup SmallIds
Addrs == 1..NumAddrs
Shards == 0..(NumShards - 1)
HomeShard == 0
JoinSlots == 1..MaxJoins

\* model::offset{}: the default-constructed offset is below every log offset
NoOffset == -1

\* int32 increment; INT_MAX + 1 is signed overflow, which wraps on the
\* two's-complement builds the program is compiled for
Inc32(x) == IF x = INT_MAX THEN (0 - INT_MAX) - 1 ELSE x + 1

\* model::broker: id, rpc address, cores, advertised kafka listeners
Broker(id, rpc, cores, kafka) ==
    [id |-> id, rpc |-> rpc, cores |-> cores, kafka |-> kafka]

SelfBroker == Broker(SelfId, 1, 2, <<1>>)

\* ascending sequence of the elements of a finite set of integers
RECURSIVE SortedSeq(_)
SortedSeq(S) ==
    IF S = {} THEN <<>>
    ELSE LET m == CHOOSE x \in S : \A y \in S : x <= y
         IN <<m>> \o SortedSeq(S \ {m})


\* ------------------------------------------------------------ error codes
errc_success == "success"
errc_invalid_request == "invalid_request"
errc_invalid_node_operation == "invalid_node_operation"
errc_invalid_configuration_update == "invalid_configuration_update"
errc_no_leader_controller == "no_leader_controller"
errc_join_request_dispatch_error == "join_request_dispatch_error"
errc_timeout == "timeout"
errc_seed_servers_exhausted == "seed_servers_exhausted"
\* any error of the consensus layer (raft::errc)
\* ss::abort_requested_exception, thrown by the aborted update queue
abort_requested_exception == "abort_requested_exception"
raft_errc_error == "raft_error"

\* ---------------------------------------------- raft::group_configuration
\* brokers: std::vector<model::broker>; state: simple or joint; learners:
\* old_config()->learners (ids), empty unless joint
GroupConfiguration(brokers, state, learners) ==
    [brokers |-> brokers, state |-> state, learners |-> learners]

CfgIds(cfg) == {cfg.brokers[i].id : i \in 1..Len(cfg.brokers)}

contains_broker(cfg, id) == id \in CfgIds(cfg)

find_broker(cfg, id) ==
    IF contains_broker(cfg, id)
    THEN Some(cfg.brokers[CHOOSE i \in 1..Len(cfg.brokers) : cfg.brokers[i].id = id])
    ELSE None

contains_address(cfg, addr) ==
    \E i \in 1..Len(cfg.brokers) : cfg.brokers[i].rpc = addr

\* the configuration with broker b appended (add_group_members)
CfgAdd(cfg, b) == [cfg EXCEPT !.brokers = Append(@, b)]

\* the configuration with the record of b.id replaced (update_group_member)
CfgUpdate(cfg, b) ==
    [cfg EXCEPT !.brokers = [i \in 1..Len(@) |-> IF @[i].id = b.id THEN b ELSE @[i]]]

\* the configuration without the brokers whose id is in ids
CfgWithout(cfg, ids) ==
    [cfg EXCEPT !.brokers = SelectSeq(@, LAMBDA b : b.id \notin ids)]

\* ------------------------------------------------------------ members table
\* nodes: id -> node_metadata{broker, state, update_offset}; removed: the
\* tombstone set (ids with removed-node metadata)
EmptyTable == [nodes |-> <<>>, removed |-> {}]

contains(mt, id) == id \in DOMAIN mt.nodes

get_removed_node_metadata_ref(mt, id) == id \in mt.removed

NodeMetadata(b, state, offset) ==
    [broker |-> b, state |-> state, update_offset |-> offset]

\* members_table::update_brokers: brokers of the configuration are created
\* or refreshed, every other node moves to the tombstone set
update_brokers(mt, offset, brokers) ==
    LET ids == {brokers[i].id : i \in 1..Len(brokers)}
        rec(id) == brokers[CHOOSE i \in 1..Len(brokers) : brokers[i].id = id]
    IN [nodes |->
          [id \in ids |->
             IF id \in DOMAIN mt.nodes
             THEN IF mt.nodes[id].broker = rec(id)
                  THEN mt.nodes[id]
                  ELSE [mt.nodes[id] EXCEPT !.broker = rec(id),
                                            !.update_offset = offset]
             ELSE NodeMetadata(rec(id), "active", offset)],
        removed |-> mt.removed \cup (DOMAIN mt.nodes \ ids)]

SetState(mt, id, state, offset) ==
    [mt EXCEPT !.nodes[id].state = state, !.nodes[id].update_offset = offset]

\* members_table::apply(offset, cmd): the new table and the result code
MtApply(mt, offset, cmd) ==
    IF cmd.key \notin DOMAIN mt.nodes
    THEN [mt |-> mt, err |-> errc_invalid_node_operation]
    ELSE LET st == mt.nodes[cmd.key].state IN
      CASE cmd.kind = "decommission_node" ->
             IF st = "decommissioning"
             THEN [mt |-> mt, err |-> errc_invalid_node_operation]
             ELSE [mt |-> SetState(mt, cmd.key, "decommissioning", offset),
                   err |-> errc_success]
        [] cmd.kind = "recommission_node" ->
             IF st /= "decommissioning"
             THEN [mt |-> mt, err |-> errc_invalid_node_operation]
             ELSE [mt |-> SetState(mt, cmd.key, "active", offset),
                   err |-> errc_success]
        [] cmd.kind = "maintenance_mode" ->
             IF st = "decommissioning"
             THEN [mt |-> mt, err |-> errc_invalid_node_operation]
             ELSE IF cmd.value
             THEN [mt |-> IF st = "active"
                          THEN SetState(mt, cmd.key, "draining", offset) ELSE mt,
                   err |-> errc_success]
             ELSE [mt |-> IF st \in {"draining", "drained"}
                          THEN SetState(mt, cmd.key, "active", offset) ELSE mt,
                   err |-> errc_success]
        [] OTHER -> [mt |-> mt, err |-> errc_invalid_node_operation]

\* --------------------------------------------------------- connection cache
\* id -> rpc address of the cached client
update_broker_client(cache, id, addr) == Put(cache, id, addr)

remove_broker_client(cache, id) == Erase(cache, id)

\* with_client: makes sure the cache holds a client for (id, addr) and uses it
with_client(cache, id, addr) == update_broker_client(cache, id, addr)

\* ------------------------------------------------------------- id registry
\* try_register_node_id that treats every known uuid as a conflict
try_register_known_conflicts(reg, requested_node_id, requested_node_uuid) ==
    IF requested_node_uuid \notin DOMAIN reg
    THEN [ok |-> TRUE,
          id_by_uuid |-> Emplace(reg, requested_node_uuid, requested_node_id)]
    ELSE [ok |-> FALSE, id_by_uuid |-> reg]

\* members_manager::try_register_node_id: [ok, id_by_uuid]
try_register_node_id(reg, requested_node_id, requested_node_uuid) ==
    IF requested_node_uuid \notin DOMAIN reg
    THEN [ok |-> TRUE,
          id_by_uuid |-> Emplace(reg, requested_node_uuid, requested_node_id)]
    ELSE [ok |-> reg[requested_node_uuid] = requested_node_id,
          id_by_uuid |-> reg]

\* the while loop of get_or_assign_node_id: advance past members and tombstones
\* a search for the next id that looks at the members only (the test of the
\* removed nodes, lines 552-554, left out)
RECURSIVE SkipMembers(_, _)
SkipMembers(mt, next) ==
    IF contains(mt, next)
    THEN IF next = INT_MAX
         THEN [next |-> next, exhausted |-> TRUE]
         ELSE SkipMembers(mt, Inc32(next))
    ELSE [next |-> next, exhausted |-> FALSE]

RECURSIVE SkipOccupied(_, _)
SkipOccupied(mt, next) ==
    IF contains(mt, next) \/ get_removed_node_metadata_ref(mt, next)
    THEN IF next = INT_MAX
         THEN [next |-> next, exhausted |-> TRUE]
         ELSE SkipOccupied(mt, Inc32(next))
    ELSE [next |-> next, exhausted |-> FALSE]

\* get_or_assign_node_id without the check that follows the loop (line 560)
get_or_assign_without_limit(reg, next, mt, node_uuid) ==
    IF node_uuid \notin DOMAIN reg
    THEN LET sk == SkipOccupied(mt, next) IN
         IF sk.exhausted
         THEN [id |-> None, id_by_uuid |-> reg, next |-> sk.next]
         ELSE [id |-> Some(sk.next),
               id_by_uuid |-> Emplace(reg, node_uuid, sk.next),
               next |-> Inc32(sk.next)]
    ELSE [id |-> Some(reg[node_uuid]), id_by_uuid |-> reg, next |-> next]

\* an assignment that takes a fresh id whether the uuid is bound or not (the
\* lookup of lines 549-550 left out)
get_or_assign_always_assigning(reg, next, mt, node_uuid) ==
    LET sk == SkipOccupied(mt, next) IN
    IF sk.exhausted \/ sk.next = INT_MAX
    THEN [id |-> None, id_by_uuid |-> reg, next |-> sk.next]
    ELSE [id |-> Some(sk.next),
          id_by_uuid |-> Put(reg, node_uuid, sk.next),
          next |-> Inc32(sk.next)]

\* members_manager::get_or_assign_node_id: [id (optional), id_by_uuid, next]
get_or_assign_node_id(reg, next, mt, node_uuid) ==
    IF node_uuid \notin DOMAIN reg
    THEN LET sk == SkipOccupied(mt, next) IN
         IF sk.exhausted \/ sk.next = INT_MAX
         THEN [id |-> None, id_by_uuid |-> reg, next |-> sk.next]
         ELSE [id |-> Some(sk.next),
               id_by_uuid |-> Emplace(reg, node_uuid, sk.next),
               next |-> Inc32(sk.next)]
    ELSE [id |-> Some(reg[node_uuid]), id_by_uuid |-> reg, next |-> next]

\* the counter after members_manager::apply_initial_node_uuid_map: the loop
\* stops at an INT_MAX entry, otherwise takes the maximum of id + 1
InitialNextId(next, map) ==
    IF INT_MAX \in Range(map) THEN INT_MAX
    ELSE IF DOMAIN map = {} THEN next
    ELSE Max(next, Inc32(CHOOSE m \in Range(map) : \A x \in Range(map) : x <= m))

\* ------------------------------------------------- configuration differences
\* a difference that reports a changed broker as removed and added again
calculate_changed_nodes_by_record(mt, cfg) ==
    [added |-> SelectSeq(cfg.brokers,
                  LAMBDA b : \/ ~contains(mt, b.id)
                             \/ mt.nodes[b.id].broker /= b),
     updated |-> <<>>,
     removed |-> SortedSeq({id \in DOMAIN mt.nodes :
                     \/ ~contains_broker(cfg, id)
                     \/ mt.nodes[id].broker \notin Range(cfg.brokers)})]

\* members_manager::calculate_changed_nodes: added and updated are brokers in
\* configuration order, removed are ids in members-table order
calculate_changed_nodes(mt, cfg) ==
    [added |-> SelectSeq(cfg.brokers, LAMBDA b : ~contains(mt, b.id)),
     updated |-> SelectSeq(cfg.brokers,
                    LAMBDA b : contains(mt, b.id) /\ mt.nodes[b.id].broker /= b),
     removed |-> SortedSeq({id \in DOMAIN mt.nodes : ~contains_broker(cfg, id)})]

RECURSIVE RemoveClients(_, _)
RemoveClients(cache, ids) ==
    IF ids = <<>> THEN cache
    ELSE RemoveClients(IF Head(ids) = SelfId THEN cache
                       ELSE remove_broker_client(cache, Head(ids)), Tail(ids))

RECURSIVE UpdateClients(_, _)
UpdateClients(cache, brokers) ==
    IF brokers = <<>> THEN cache
    ELSE UpdateClients(IF Head(brokers).id = SelfId THEN cache
                       ELSE update_broker_client(cache, Head(brokers).id,
                                                 Head(brokers).rpc),
                       Tail(brokers))

\* a reconciliation that removes last (the loop of lines 424-429 moved
\* behind the two others)
update_connections_removing_last(cache, changed) ==
    RemoveClients(UpdateClients(UpdateClients(cache, changed.added),
                                changed.updated),
                  changed.removed)

\* members_manager::update_connections: removed, then added, then updated
update_connections(cache, changed) ==
    UpdateClients(UpdateClients(RemoveClients(cache, changed.removed),
                                changed.added),
                  changed.updated)

\* check_result_configuration: TRUE when an error string is returned
\* a validation that does not compare kafka advertised endpoints
check_result_without_kafka(current_brokers, to_update) ==
    \E id \in DOMAIN current_brokers :
       LET current == current_brokers[id].broker IN
       IF id = to_update.id
       THEN current.cores > to_update.cores
       ELSE current.rpc = to_update.rpc

check_result_configuration(current_brokers, to_update) ==
    \E id \in DOMAIN current_brokers :
       LET current == current_brokers[id].broker IN
       IF id = to_update.id
       THEN current.cores > to_update.cores
       ELSE \/ current.rpc = to_update.rpc
            \/ \E i \in 1..Len(current.kafka) :
                  \E j \in 1..Len(to_update.kafka) :
                     current.kafka[i] = to_update.kafka[j]

\* =================================================================== state
VARIABLES
    feature_active,        \* feature_table: node_id_assignment is active
    id_by_uuid,            \* _id_by_uuid
    next_assigned_id,      \* _next_assigned_id
    members_table,         \* _members_table, one table per shard
    raft0,                 \* _raft0: live configuration and its log offset
    leader_id,             \* _raft0->get_leader_id()
    connection_cache,      \* _connection_cache
    last_connection_update_offset, \* _last_connection_update_offset
    update_queue,          \* _update_queue
    pending_updates,       \* events apply_update is blocked pushing
    log,                   \* committed controller batches not yet applied
    next_offset,           \* offset of the next batch appended to the log
    joins,                 \* handle_join_request invocations in flight
    started,               \* start() has run
    allocator,             \* partition allocator: node list and decommissioned
    draining,              \* drain manager, per shard
    replica,               \* a second instance applying the same batches
    succeeded,             \* register_node_uuid commands that returned success
    last_op,               \* the operation that just completed and its result
    crashed,               \* a vassert failed
    as_fired,              \* _as: the abort source was requested to abort
    queue_ex,              \* _update_queue was aborted and holds the exception
    gate_closed,           \* _gate was closed by stop()
    consumer,              \* a get_node_updates call waiting in pop_eventually
    updater,               \* dispatch_configuration_update: position, attempts
    joiner                 \* join_raft0 loop: position, seed, attempts

vars == <<feature_active, id_by_uuid, next_assigned_id, members_table, raft0,
          leader_id, connection_cache, last_connection_update_offset,
          update_queue, pending_updates, log, next_offset, joins, started,
          allocator, draining, replica, succeeded, last_op, crashed,
          as_fired, queue_ex, gate_closed, consumer, updater, joiner>>

registry_vars == <<id_by_uuid, next_assigned_id>>
raft_vars == <<raft0, leader_id>>
queue_vars == <<update_queue, pending_updates>>
log_vars == <<log, next_offset>>
side_vars == <<allocator, draining>>
loop_vars == <<updater, joiner>>
client_vars == <<as_fired, queue_ex, gate_closed, consumer, loop_vars>>

LocalTable == members_table[HomeShard]

ConfigBatch(offset, cfg) ==
    [type |-> "raft_configuration", offset |-> offset, cfg |-> cfg]

CommandBatch(offset, cmd) ==
    [type |-> "node_management_cmd", offset |-> offset, cmd |-> cmd]

Command(kind, key, value) == [kind |-> kind, key |-> key, value |-> value]

NodeUpdate(id, type, offset) == [id |-> id, type |-> type, offset |-> offset]

\* cluster::drain_manager of one shard: whether it drains, and the offset of
\* the command that invoked it last
DrainIdle == [draining |-> FALSE, invoked |-> NoOffset]
drain(dm, offset) == [draining |-> TRUE, invoked |-> offset]
restore(dm, offset) == [draining |-> FALSE, invoked |-> offset]

\* the client-side loops before they are started
IdleUpdater == [pc |-> "idle", attempts |-> 0]
IdleJoiner == [pc |-> "idle", attempts |-> 0, seed |-> 0]

IdleJoin == [pc |-> "idle"]

NoOp == [op |-> "none"]

\* the raft0 configuration a node starts from: the node itself when it
\* founds the cluster, the seed broker when it has yet to join
InitialBrokers == {<<SelfBroker>>, <<Broker(1, NumAddrs, 2, <<NumAddrs>>)>>}

\* members_manager::is_already_member
is_already_member == contains_broker(raft0.cfg, SelfId)

Init ==
    /\ feature_active \in BOOLEAN
    /\ id_by_uuid = <<>>
    /\ next_assigned_id = 1
    /\ members_table = [s \in Shards |-> EmptyTable]
    /\ raft0 \in {[cfg |-> GroupConfiguration(brokers, "simple", {}),
                    latest_offset |-> 0] : brokers \in InitialBrokers}
    /\ leader_id \in {None, Some(SelfId)}
    /\ connection_cache = <<>>
    /\ last_connection_update_offset = NoOffset
    /\ update_queue = <<>>
    /\ pending_updates = <<>>
    /\ log = <<ConfigBatch(0, raft0.cfg)>>
    /\ next_offset = 1
    /\ joins = [s \in JoinSlots |-> IdleJoin]
    /\ started = FALSE
    /\ allocator = [nodes |-> {}, decommissioned |-> {}]
    /\ draining = [s \in Shards |-> DrainIdle]
    /\ replica = [mt |-> EmptyTable, id_by_uuid |-> <<>>, next_assigned_id |-> 1,
                  state |-> "simple", learners |-> {}, result |-> errc_success]
    /\ succeeded = {}
    /\ last_op = NoOp
    /\ crashed = FALSE
    /\ as_fired \in BOOLEAN
    /\ queue_ex = as_fired
    /\ gate_closed = FALSE
    /\ consumer = "idle"
    /\ updater = IdleUpdater
    /\ joiner = IdleJoiner

\* ------------------------------------------------------------ update queue
\* a push that never waits for room (push_eventually replaced by a plain
\* append)
PushRegardless(queue, events) == [queue |-> queue \o events, pending |-> <<>>]

\* push_eventually for each event in turn: the events that fit are queued,
\* the producer stays blocked on the rest
RECURSIVE PushEventually(_, _)
PushEventually(queue, events) ==
    IF events = <<>> \/ Len(queue) >= max_updates_queue_size
    THEN [queue |-> queue, pending |-> events]
    ELSE PushEventually(Append(queue, Head(events)), Tail(events))

\* ------------------------------------------------------------- environment
CanAppend == next_offset <= MaxOffset /\ Len(log) < MaxPending

\* the consensus layer replicates a configuration: it becomes the live
\* configuration and its batch is committed to the controller log
RaftReplicate(cfg) ==
    /\ raft0' = [cfg |-> cfg, latest_offset |-> next_offset]
    /\ log' = Append(log, ConfigBatch(next_offset, cfg))
    /\ next_offset' = next_offset + 1

ManagementCommands ==
    {Command(k, id, None) :
        k \in {"decommission_node", "recommission_node", "finish_reallocations"},
        id \in NodeIds}
    \cup {Command("maintenance_mode", id, e) : id \in NodeIds, e \in BOOLEAN}

RegisterCommands(ids) ==
    {Command("register_node_uuid", u, v) :
        u \in UUIDs, v \in {None} \cup {Some(i) : i \in ids}}

\* a command replicated through the controller log by a frontend or by
\* another node's join handler
SubmitCommand(cmd) ==
    /\ ~crashed
    /\ CanAppend
    /\ log' = Append(log, CommandBatch(next_offset, cmd))
    /\ next_offset' = next_offset + 1
    /\ last_op' = NoOp
    /\ UNCHANGED client_vars
    /\ UNCHANGED <<feature_active, registry_vars, members_table, raft_vars,
                   connection_cache, last_connection_update_offset, queue_vars,
                   joins, started, side_vars, replica, succeeded, crashed>>

\* leadership of the controller group changes
RaftLeaderChange(l) ==
    /\ ~crashed
    /\ leader_id /= l
    /\ leader_id' = l
    /\ last_op' = NoOp
    /\ UNCHANGED client_vars
    /\ UNCHANGED <<feature_active, registry_vars, members_table, raft0,
                   connection_cache, last_connection_update_offset, queue_vars,
                   log_vars, joins, started, side_vars, replica, succeeded,
                   crashed>>

\* another node, as leader, admitted a broker to the controller group
RaftAddBroker(b) ==
    /\ ~crashed
    /\ CanAppend
    /\ raft0.cfg.state = "simple"
    /\ ~contains_broker(raft0.cfg, b.id)
    /\ RaftReplicate(CfgAdd(raft0.cfg, b))
    /\ last_op' = NoOp
    /\ UNCHANGED client_vars
    /\ UNCHANGED <<feature_active, registry_vars, members_table, leader_id,
                   connection_cache, last_connection_update_offset, queue_vars,
                   joins, started, side_vars, replica, succeeded, crashed>>

\* the consensus layer starts removing a broker: joint configuration in which
\* the broker is a demoted voter (learner of the old configuration)
RaftRemoveBegin(id) ==
    /\ ~crashed
    /\ CanAppend
    /\ raft0.cfg.state = "simple"
    /\ contains_broker(raft0.cfg, id)
    /\ id /= SelfId
    /\ RaftReplicate([raft0.cfg EXCEPT !.state = "joint", !.learners = {id}])
    /\ last_op' = NoOp
    /\ UNCHANGED client_vars
    /\ UNCHANGED <<feature_active, registry_vars, members_table, leader_id,
                   connection_cache, last_connection_update_offset, queue_vars,
                   joins, started, side_vars, replica, succeeded, crashed>>

\* the joint configuration is left: the demoted voters are gone
RaftRemoveFinish ==
    /\ ~crashed
    /\ CanAppend
    /\ raft0.cfg.state = "joint"
    /\ RaftReplicate([CfgWithout(raft0.cfg, raft0.cfg.learners)
                         EXCEPT !.state = "simple", !.learners = {}])
    /\ last_op' = NoOp
    /\ UNCHANGED client_vars
    /\ UNCHANGED <<feature_active, registry_vars, members_table, leader_id,
                   connection_cache, last_connection_update_offset, queue_vars,
                   joins, started, side_vars, replica, succeeded, crashed>>

\* the second instance's consensus layer reaches the live configuration state
ReplicaObserveRaft0 ==
    /\ ~crashed
    /\ <<replica.state, replica.learners>> /= <<raft0.cfg.state, raft0.cfg.learners>>
    /\ replica' = [replica EXCEPT !.state = raft0.cfg.state,
                                  !.learners = raft0.cfg.learners]
    /\ last_op' = NoOp
    /\ UNCHANGED client_vars
    /\ UNCHANGED <<feature_active, registry_vars, members_table, raft_vars,
                   connection_cache, last_connection_update_offset, queue_vars,
                   log_vars, joins, started, side_vars, succeeded, crashed>>

\* --------------------------------------------------------------- lifecycle
\* injective uuid -> id maps over the given ids
InitialMaps(ids) ==
    UNION {{m \in [D -> ids] : \A u, v \in D : u /= v => m[u] /= m[v]} :
              D \in (SUBSET UUIDs) \ {{}}}

\* the controller loads the initial map before it replays the controller log
NothingApplied == log /= <<>> /\ Head(log).offset = 0

\* members_manager::apply_initial_node_uuid_map
apply_initial_node_uuid_map(map) ==
    /\ ~crashed
    /\ ~started
    /\ NothingApplied
    /\ IF id_by_uuid /= <<>>
       THEN /\ crashed' = TRUE
            /\ UNCHANGED <<registry_vars, replica>>
       ELSE /\ next_assigned_id' = InitialNextId(next_assigned_id, map)
            /\ id_by_uuid' = map
            /\ replica' = [replica EXCEPT
                             !.next_assigned_id = InitialNextId(@, map),
                             !.id_by_uuid = map]
            /\ UNCHANGED crashed
    /\ last_op' = [op |-> "apply_initial_node_uuid_map"]
    /\ UNCHANGED client_vars
    /\ UNCHANGED <<feature_active, members_table, raft_vars, connection_cache,
                   last_connection_update_offset, queue_vars, log_vars, joins,
                   started, side_vars, succeeded>>

\* the clients start() creates: one per configuration broker other than self
InitialConnections(cache, brokers) == UpdateClients(cache, brokers)

\* members_manager::start
start ==
    /\ ~crashed
    /\ ~started
    /\ started' = TRUE
    /\ connection_cache' = InitialConnections(connection_cache, raft0.cfg.brokers)
    /\ last_connection_update_offset' = raft0.latest_offset
    /\ last_op' = [op |-> "start"]
    /\ UNCHANGED client_vars
    /\ UNCHANGED <<feature_active, registry_vars, members_table, raft_vars,
                   queue_vars, log_vars, joins, side_vars, replica, succeeded,
                   crashed>>

\* ---------------------------------------------------------- command applier
CanApply(type) ==
    /\ ~crashed
    /\ log /= <<>>
    /\ pending_updates = <<>>
    /\ Head(log).type = type

CanApplyCommand(kind) ==
    /\ CanApply("node_management_cmd")
    /\ Head(log).cmd.kind = kind

\* handle_raft0_cfg_update without the offset guard of line 193
ConnectionUpdateAlways(update_offset, last) == TRUE

\* line 193: the connection cache is reconciled only by a newer offset
ConnectionUpdateDue(update_offset, last) == update_offset > last

\* added events that carry the offset of the first batch instead of the
\* batch's own (.offset = update_offset of line 204 replaced)
AddedEventsAtFirstOffset(brokers, offset) ==
    [i \in 1..Len(brokers) |-> NodeUpdate(brokers[i].id, "added", 0)]

AddedEvents(brokers, offset) ==
    [i \in 1..Len(brokers) |-> NodeUpdate(brokers[i].id, "added", offset)]

\* push_eventually on an aborted queue fails with the queue's exception
PushFails(events) == queue_ex /\ events /= <<>>

\* what every apply_update handler does on completion of the state change:
\* queue its events, publish its result, drop the batch from the log
\* (replay: a registration command that had succeeded before)
Complete(b, err, events) ==
    /\ LET p == PushEventually(update_queue, events)
       IN IF PushFails(events)
          THEN UNCHANGED queue_vars
          ELSE /\ update_queue' = p.queue
               /\ pending_updates' = p.pending
    /\ log' = Tail(log)
    /\ last_op' = [op |-> "apply", batch |-> b,
                    result |-> IF PushFails(events)
                               THEN abort_requested_exception ELSE err,
                    replay |-> /\ b.type = "node_management_cmd"
                               /\ <<b.cmd.key, b.cmd.value>> \in succeeded]

\* a configuration handler whose early return comes before the members
\* tables are updated (the test of line 193 moved above line 188)
ApplyRaftConfigurationReturningEarly ==
    /\ CanApply("raft_configuration")
    /\ LET b == Head(log)
           diff == calculate_changed_nodes(LocalTable, b.cfg)
           due == ConnectionUpdateDue(b.offset, last_connection_update_offset)
       IN /\ allocator' = [allocator EXCEPT !.nodes = CfgIds(b.cfg)]
          /\ members_table' =
                [s \in Shards |->
                   IF due THEN update_brokers(members_table[s], b.offset,
                                              b.cfg.brokers)
                   ELSE members_table[s]]
          /\ connection_cache' =
                IF due THEN update_connections(connection_cache, diff)
                ELSE connection_cache
          /\ last_connection_update_offset' =
                IF due THEN b.offset ELSE last_connection_update_offset
          /\ Complete(b, errc_success,
                      IF due THEN AddedEvents(diff.added, b.offset) ELSE <<>>)
          /\ replica' = [replica EXCEPT
                           !.mt = update_brokers(@, b.offset, b.cfg.brokers),
                           !.result = errc_success]
    /\ UNCHANGED client_vars
    /\ UNCHANGED <<feature_active, registry_vars, raft_vars, next_offset, joins,
                   started, draining, succeeded, crashed>>

\* a configuration handler that updates the members table of the home shard
\* only (invoke_on_all of line 188 replaced by a local call)
ApplyRaftConfigurationOnHomeShard ==
    /\ CanApply("raft_configuration")
    /\ LET b == Head(log)
           diff == calculate_changed_nodes(LocalTable, b.cfg)
           due == ConnectionUpdateDue(b.offset, last_connection_update_offset)
       IN /\ allocator' = [allocator EXCEPT !.nodes = CfgIds(b.cfg)]
          /\ members_table' =
                [members_table EXCEPT
                   ![HomeShard] = update_brokers(@, b.offset, b.cfg.brokers)]
          /\ connection_cache' =
                IF due THEN update_connections(connection_cache, diff)
                ELSE connection_cache
          /\ last_connection_update_offset' =
                IF due THEN b.offset ELSE last_connection_update_offset
          /\ Complete(b, errc_success,
                      IF due THEN AddedEvents(diff.added, b.offset) ELSE <<>>)
          /\ replica' = [replica EXCEPT
                           !.mt = update_brokers(@, b.offset, b.cfg.brokers),
                           !.result = errc_success]
    /\ UNCHANGED client_vars
    /\ UNCHANGED <<feature_active, registry_vars, raft_vars, next_offset, joins,
                   started, draining, succeeded, crashed>>

\* members_manager::handle_raft0_cfg_update via apply_raft_configuration_batch
ApplyRaftConfiguration ==
    /\ CanApply("raft_configuration")
    /\ LET b == Head(log)
           diff == calculate_changed_nodes(LocalTable, b.cfg)
           due == ConnectionUpdateDue(b.offset, last_connection_update_offset)
       IN /\ allocator' = [allocator EXCEPT !.nodes = CfgIds(b.cfg)]
          /\ members_table' =
                [s \in Shards |-> update_brokers(members_table[s], b.offset,
                                                 b.cfg.brokers)]
          /\ connection_cache' =
                IF due THEN update_connections(connection_cache, diff)
                ELSE connection_cache
          /\ last_connection_update_offset' =
                IF due THEN b.offset ELSE last_connection_update_offset
          /\ Complete(b, errc_success,
                      IF due THEN AddedEvents(diff.added, b.offset) ELSE <<>>)
          /\ replica' = [replica EXCEPT
                           !.mt = update_brokers(@, b.offset, b.cfg.brokers),
                           !.result = errc_success]
    /\ UNCHANGED client_vars
    /\ UNCHANGED <<feature_active, registry_vars, raft_vars, next_offset, joins,
                   started, draining, succeeded, crashed>>

\* a fan-out that reaches the home shard only (_members_table.map of line
\* 394 replaced by a local call)
dispatch_updates_to_home_core(tables, update_offset, cmd) ==
    LET res == MtApply(tables[HomeShard], update_offset, cmd)
    IN [tables |-> [tables EXCEPT ![HomeShard] = res.mt],
        err |-> res.err,
        state_consistent |-> TRUE]

\* members_manager::dispatch_updates_to_cores: every shard applies the
\* command; the results must agree
dispatch_updates_to_cores(tables, update_offset, cmd) ==
    LET res == [s \in Shards |-> MtApply(tables[s], update_offset, cmd)]
    IN [tables |-> [s \in Shards |-> res[s].mt],
        err |-> res[HomeShard].err,
        state_consistent |-> \A s \in Shards : res[s].err = res[HomeShard].err]

\* a decommission handler that tells the allocator and the queue whatever
\* the members tables answered (the check of line 226 left out)
ApplyDecommissionNodeUnchecked ==
    /\ CanApplyCommand("decommission_node")
    /\ LET b == Head(log)
           id == b.cmd.key
           d == dispatch_updates_to_cores(members_table, b.offset, b.cmd)
           r == MtApply(replica.mt, b.offset, b.cmd)
       IN /\ members_table' = d.tables
          /\ crashed' = ~d.state_consistent
          /\ allocator' = [allocator EXCEPT !.decommissioned = @ \cup {id}]
          /\ Complete(b, d.err, <<NodeUpdate(id, "decommissioned", b.offset)>>)
          /\ replica' = [replica EXCEPT !.mt = r.mt, !.result = r.err]
    /\ UNCHANGED client_vars
    /\ UNCHANGED <<feature_active, registry_vars, raft_vars, connection_cache,
                   last_connection_update_offset, next_offset, joins, started,
                   draining, succeeded>>

\* apply_update, decommission_node_cmd
ApplyDecommissionNode ==
    /\ CanApplyCommand("decommission_node")
    /\ LET b == Head(log)
           id == b.cmd.key
           d == dispatch_updates_to_cores(members_table, b.offset, b.cmd)
           r == MtApply(replica.mt, b.offset, b.cmd)
       IN /\ members_table' = d.tables
          /\ crashed' = ~d.state_consistent
          /\ allocator' = IF d.err = errc_success
                          THEN [allocator EXCEPT !.decommissioned = @ \cup {id}]
                          ELSE allocator
          /\ Complete(b, d.err,
                      IF d.err = errc_success
                      THEN <<NodeUpdate(id, "decommissioned", b.offset)>>
                      ELSE <<>>)
          /\ replica' = [replica EXCEPT !.mt = r.mt, !.result = r.err]
    /\ UNCHANGED client_vars
    /\ UNCHANGED <<feature_active, registry_vars, raft_vars, connection_cache,
                   last_connection_update_offset, next_offset, joins, started,
                   draining, succeeded>>

\* a recommission handler without the raft0 configuration check
RecommissionNeverRejected(raft0_cfg, id) == FALSE

\* lines 242-256: a demoted voter about to be removed is not recommissioned
RecommissionRejected(raft0_cfg, id) ==
    raft0_cfg.state = "joint" /\ id \in raft0_cfg.learners

\* apply_update, recommission_node_cmd
ApplyRecommissionNode ==
    /\ CanApplyCommand("recommission_node")
    /\ LET b == Head(log)
           id == b.cmd.key
           rejected == RecommissionRejected(raft0.cfg, id)
           d == IF rejected
                THEN [tables |-> members_table,
                      err |-> errc_invalid_node_operation,
                      state_consistent |-> TRUE]
                ELSE dispatch_updates_to_cores(members_table, b.offset, b.cmd)
           r == IF RecommissionRejected(replica, id)
                THEN [mt |-> replica.mt, err |-> errc_invalid_node_operation]
                ELSE MtApply(replica.mt, b.offset, b.cmd)
       IN /\ members_table' = d.tables
          /\ crashed' = ~d.state_consistent
          /\ allocator' = IF d.err = errc_success
                          THEN [allocator EXCEPT !.decommissioned = @ \ {id}]
                          ELSE allocator
          /\ Complete(b, d.err,
                      IF d.err = errc_success
                      THEN <<NodeUpdate(id, "recommissioned", b.offset)>>
                      ELSE <<>>)
          /\ replica' = [replica EXCEPT !.mt = r.mt, !.result = r.err]
    /\ UNCHANGED client_vars
    /\ UNCHANGED <<feature_active, registry_vars, raft_vars, connection_cache,
                   last_connection_update_offset, next_offset, joins, started,
                   draining, succeeded>>

\* a finish_reallocations handler that looks the node up first and refuses
\* an id the members table does not hold
ApplyFinishReallocationsKnownOnly ==
    /\ CanApplyCommand("finish_reallocations")
    /\ LET b == Head(log)
           known == b.cmd.key \in DOMAIN LocalTable.nodes
           err == IF known THEN errc_success ELSE errc_invalid_node_operation
       IN /\ Complete(b, err,
                      IF known
                      THEN <<NodeUpdate(b.cmd.key, "reallocation_finished",
                                        b.offset)>>
                      ELSE <<>>)
          /\ replica' = [replica EXCEPT !.result = err]
    /\ UNCHANGED client_vars
    /\ UNCHANGED <<feature_active, registry_vars, members_table, raft_vars,
                   connection_cache, last_connection_update_offset, next_offset,
                   joins, started, side_vars, succeeded, crashed>>

\* apply_update, finish_reallocations_cmd
ApplyFinishReallocations ==
    /\ CanApplyCommand("finish_reallocations")
    /\ LET b == Head(log)
       IN /\ Complete(b, errc_success,
                      <<NodeUpdate(b.cmd.key, "reallocation_finished", b.offset)>>)
          /\ replica' = [replica EXCEPT !.result = errc_success]
    /\ UNCHANGED client_vars
    /\ UNCHANGED <<feature_active, registry_vars, members_table, raft_vars,
                   connection_cache, last_connection_update_offset, next_offset,
                   joins, started, side_vars, succeeded, crashed>>

\* a maintenance_mode handler that drains or restores the local node for a
\* command about any node (cmd.key == _self.id() of line 286 left out)
ApplyMaintenanceModeAnyNode ==
    /\ CanApplyCommand("maintenance_mode")
    /\ LET b == Head(log)
           d == dispatch_updates_to_cores(members_table, b.offset, b.cmd)
           r == MtApply(replica.mt, b.offset, b.cmd)
       IN /\ members_table' = d.tables
          /\ crashed' = ~d.state_consistent
          /\ draining' = IF d.err = errc_success
                         THEN [s \in Shards |->
                                 IF b.cmd.value
                                 THEN drain(draining[s], b.offset)
                                 ELSE restore(draining[s], b.offset)]
                         ELSE draining
          /\ Complete(b, d.err, <<>>)
          /\ replica' = [replica EXCEPT !.mt = r.mt, !.result = r.err]
    /\ UNCHANGED client_vars
    /\ UNCHANGED <<feature_active, registry_vars, raft_vars, connection_cache,
                   last_connection_update_offset, next_offset, joins, started,
                   allocator, succeeded>>

\* apply_update, maintenance_mode_cmd
ApplyMaintenanceMode ==
    /\ CanApplyCommand("maintenance_mode")
    /\ LET b == Head(log)
           d == dispatch_updates_to_cores(members_table, b.offset, b.cmd)
           r == MtApply(replica.mt, b.offset, b.cmd)
       IN /\ members_table' = d.tables
          /\ crashed' = ~d.state_consistent
          /\ draining' = IF d.err = errc_success /\ b.cmd.key = SelfId
                         THEN [s \in Shards |->
                                 IF b.cmd.value
                                 THEN drain(draining[s], b.offset)
                                 ELSE restore(draining[s], b.offset)]
                         ELSE draining
          /\ Complete(b, d.err, <<>>)
          /\ replica' = [replica EXCEPT !.mt = r.mt, !.result = r.err]
    /\ UNCHANGED client_vars
    /\ UNCHANGED <<feature_active, registry_vars, raft_vars, connection_cache,
                   last_connection_update_offset, next_offset, joins, started,
                   allocator, succeeded>>

\* lines 299-331: the registry after register_node_uuid_cmd and its result
RegisterNodeUuid(reg, next, mt, cmd) ==
    IF HasValue(cmd.value)
    THEN LET t == try_register_node_id(reg, Value(cmd.value), cmd.key)
         IN [id_by_uuid |-> t.id_by_uuid, next |-> next,
             err |-> IF t.ok THEN errc_success
                     ELSE errc_join_request_dispatch_error]
    ELSE LET g == get_or_assign_node_id(reg, next, mt, cmd.key)
         IN [id_by_uuid |-> g.id_by_uuid, next |-> g.next,
             err |-> IF HasValue(g.id) THEN errc_success
                     ELSE errc_invalid_node_operation]

\* apply_update, register_node_uuid_cmd
ApplyRegisterNodeUuid ==
    /\ CanApplyCommand("register_node_uuid")
    /\ LET b == Head(log)
           a == RegisterNodeUuid(id_by_uuid, next_assigned_id, LocalTable, b.cmd)
           r == RegisterNodeUuid(replica.id_by_uuid, replica.next_assigned_id,
                                 replica.mt, b.cmd)
       IN /\ id_by_uuid' = a.id_by_uuid
          /\ next_assigned_id' = a.next
          /\ succeeded' = IF a.err = errc_success
                          THEN succeeded \cup {<<b.cmd.key, b.cmd.value>>}
                          ELSE succeeded
          /\ joins' = [s \in JoinSlots |->
                         IF joins[s].pc = "wait" /\ joins[s].offset = b.offset
                         THEN [pc |-> "applied", req |-> joins[s].req,
                               err |-> a.err]
                         ELSE joins[s]]
          /\ Complete(b, a.err, <<>>)
          /\ replica' = [replica EXCEPT !.id_by_uuid = r.id_by_uuid,
                                        !.next_assigned_id = r.next,
                                        !.result = r.err]
    /\ UNCHANGED client_vars
    /\ UNCHANGED <<feature_active, members_table, raft_vars, connection_cache,
                   last_connection_update_offset, next_offset, started,
                   side_vars, crashed>>

\* apply_update resumes once the update queue has room again
ApplierResume ==
    /\ ~crashed
    /\ pending_updates /= <<>>
    /\ Len(update_queue) < max_updates_queue_size
    /\ LET p == PushEventually(update_queue, pending_updates)
       IN /\ update_queue' = p.queue
          /\ pending_updates' = p.pending
    /\ UNCHANGED client_vars
    /\ UNCHANGED <<feature_active, registry_vars, members_table, raft_vars,
                   connection_cache, last_connection_update_offset, log_vars,
                   joins, started, side_vars, replica, succeeded, last_op,
                   crashed>>

\* a consumer that takes the newest event first
get_node_updates_reversed ==
    /\ ~crashed
    /\ consumer = "idle"
    /\ update_queue /= <<>>
    /\ update_queue' = <<>>
    /\ last_op' = [op |-> "get_node_updates",
                   updates |-> [i \in 1..Len(update_queue) |->
                                  update_queue[Len(update_queue) + 1 - i]],
                   error |-> errc_success]
    /\ UNCHANGED client_vars
    /\ UNCHANGED <<feature_active, registry_vars, members_table, raft_vars,
                   connection_cache, last_connection_update_offset,
                   pending_updates, log_vars, joins, started, side_vars,
                   replica, succeeded, crashed>>

\* members_manager::get_node_updates with a non-empty queue: everything queued
get_node_updates ==
    /\ ~crashed
    /\ consumer = "idle"
    /\ update_queue /= <<>>
    /\ update_queue' = <<>>
    /\ last_op' = [op |-> "get_node_updates", updates |-> update_queue,
                   error |-> errc_success]
    /\ UNCHANGED client_vars
    /\ UNCHANGED <<feature_active, registry_vars, members_table, raft_vars,
                   connection_cache, last_connection_update_offset,
                   pending_updates, log_vars, joins, started, side_vars,
                   replica, succeeded, crashed>>

\* -------------------------------------------------- configuration updates
UpdateReply(err, success) == [err |-> err, success |-> success]

\* what the remote end of a forwarded rpc can answer
RemoteOutcomes == {"ok", "refused", "error", "exception"}

RemoteUpdateReply(remote) ==
    CASE remote = "ok" -> UpdateReply(errc_success, TRUE)
      [] remote = "refused" -> UpdateReply(errc_success, FALSE)
      [] remote = "error" -> UpdateReply(errc_invalid_configuration_update, FALSE)
      [] OTHER -> UpdateReply(errc_join_request_dispatch_error, FALSE)

\* update_group_member / add_group_members can succeed only when the group
\* is not already changing and the log has room for the new configuration
RaftAccepts(raft_ok) == raft_ok /\ CanAppend /\ raft0.cfg.state = "simple"

\* a handler that leaves the connection cache as it is (update_connections of
\* line 1031 left out)
handle_update_without_connections(node, target_node, cache, raft_ok, remote) ==
    IF target_node /= SelfId
    THEN [reply |-> UpdateReply(errc_success, FALSE), cache |-> cache,
          new_cfg |-> None]
    ELSE IF check_result_configuration(LocalTable.nodes, node)
    THEN [reply |-> UpdateReply(errc_invalid_configuration_update, FALSE),
          cache |-> cache, new_cfg |-> None]
    ELSE LET updated == cache
         IN IF ~HasValue(leader_id)
            THEN [reply |-> UpdateReply(errc_no_leader_controller, FALSE),
                  cache |-> updated, new_cfg |-> None]
            ELSE IF Value(leader_id) = SelfId
            THEN IF RaftAccepts(raft_ok) /\ contains_broker(raft0.cfg, node.id)
                 THEN [reply |-> UpdateReply(errc_success, TRUE),
                       cache |-> updated,
                       new_cfg |-> Some(CfgUpdate(raft0.cfg, node))]
                 ELSE [reply |-> UpdateReply(raft_errc_error, FALSE),
                       cache |-> updated, new_cfg |-> None]
            ELSE IF ~contains(LocalTable, Value(leader_id))
            THEN [reply |-> UpdateReply(errc_no_leader_controller, FALSE),
                  cache |-> updated, new_cfg |-> None]
            ELSE [reply |-> RemoteUpdateReply(remote),
                  cache |-> with_client(updated, Value(leader_id),
                              LocalTable.nodes[Value(leader_id)].broker.rpc),
                  new_cfg |-> None]

\* members_manager::handle_configuration_update_request: the reply, the
\* connection cache afterwards, and the configuration handed to raft0 (if any)
handle_configuration_update_request(node, target_node, cache, raft_ok, remote) ==
    IF target_node /= SelfId
    THEN [reply |-> UpdateReply(errc_success, FALSE), cache |-> cache,
          new_cfg |-> None]
    ELSE IF check_result_configuration(LocalTable.nodes, node)
    THEN [reply |-> UpdateReply(errc_invalid_configuration_update, FALSE),
          cache |-> cache, new_cfg |-> None]
    ELSE LET updated == update_connections(cache,
                           [added |-> <<>>, updated |-> <<node>>,
                            removed |-> <<>>])
         IN IF ~HasValue(leader_id)
            THEN [reply |-> UpdateReply(errc_no_leader_controller, FALSE),
                  cache |-> updated, new_cfg |-> None]
            ELSE IF Value(leader_id) = SelfId
            THEN IF RaftAccepts(raft_ok) /\ contains_broker(raft0.cfg, node.id)
                 THEN [reply |-> UpdateReply(errc_success, TRUE),
                       cache |-> updated,
                       new_cfg |-> Some(CfgUpdate(raft0.cfg, node))]
                 ELSE [reply |-> UpdateReply(raft_errc_error, FALSE),
                       cache |-> updated, new_cfg |-> None]
            ELSE IF ~contains(LocalTable, Value(leader_id))
            THEN [reply |-> UpdateReply(errc_no_leader_controller, FALSE),
                  cache |-> updated, new_cfg |-> None]
            ELSE [reply |-> RemoteUpdateReply(remote),
                  cache |-> with_client(updated, Value(leader_id),
                              LocalTable.nodes[Value(leader_id)].broker.rpc),
                  new_cfg |-> None]

\* the effects common to the handlers that may hand a configuration to raft0
Effects(out) ==
    /\ connection_cache' = out.cache
    /\ IF HasValue(out.new_cfg)
       THEN RaftReplicate(Value(out.new_cfg))
       ELSE UNCHANGED <<raft0, log_vars>>

Cores == {1, 2}
KafkaListeners == {<<1>>, <<2>>}

RequestBrokers(ids) ==
    {Broker(id, rpc, cores, kafka) :
        id \in ids, rpc \in Addrs, cores \in Cores, kafka \in KafkaListeners}

\* update_node_configuration rpc received from a node
HandleConfigurationUpdateRequest(node, target_node, raft_ok, remote) ==
    /\ ~crashed
    /\ LET out == handle_configuration_update_request(
                     node, target_node, connection_cache, raft_ok, remote)
       IN /\ Effects(out)
          /\ last_op' = [op |-> "configuration_update", node |-> node,
                         target |-> target_node, remote |-> remote,
                         reply |-> out.reply]
    /\ UNCHANGED client_vars
    /\ UNCHANGED <<feature_active, registry_vars, members_table, leader_id,
                   last_connection_update_offset, queue_vars, joins, started,
                   side_vars, replica, succeeded, crashed>>

\* ------------------------------------------------------------ join requests
JoinReply(err, success, id) == [err |-> err, success |-> success, id |-> id]

JoinError(err) == JoinReply(err, FALSE, unassigned_node_id)

NoUuid == [len |-> 0, val |-> 0]
Uuid(u) == [len |-> uuid_length, val |-> u]
\* a uuid field that is neither empty nor 16 bytes long
ShortUuid == [len |-> 8, val |-> 1]

JoinRequests(ids) ==
    {[node_uuid |-> u, node |-> b] :
        u \in {NoUuid, ShortUuid} \cup {Uuid(x) : x \in UUIDs},
        b \in RequestBrokers(ids \cup {unassigned_node_id})}

req_has_node_uuid(req) == req.node_uuid.len /= 0

req_node_id(req) == IF req.node.id >= 0 THEN Some(req.node.id) ELSE None

\* the validation without the uuid size check of lines 714-722
InvalidJoinRequestAnySize(req) ==
    \/ feature_active /\ ~req_has_node_uuid(req)
    \/ ~feature_active /\ ~HasValue(req_node_id(req))
    \/ ~HasValue(req_node_id(req)) /\ ~req_has_node_uuid(req)

\* lines 693-728: the request is malformed
InvalidJoinRequest(req) ==
    \/ feature_active /\ ~req_has_node_uuid(req)
    \/ ~feature_active /\ ~HasValue(req_node_id(req))
    \/ req_has_node_uuid(req) /\ req.node_uuid.len /= uuid_length
    \/ ~HasValue(req_node_id(req)) /\ ~req_has_node_uuid(req)

RemoteJoinReply(req, remote) ==
    CASE remote = "ok" ->
           JoinReply(errc_success, TRUE,
                     IF req.node.id >= 0 THEN req.node.id ELSE 1)
      [] remote = "refused" -> JoinReply(errc_success, FALSE, unassigned_node_id)
      [] remote = "error" -> JoinError(errc_invalid_request)
      [] OTHER -> JoinError(errc_join_request_dispatch_error)

Outcome(path, reply, cache, new_cfg) ==
    [done |-> TRUE, path |-> path, reply |-> reply, cache |-> cache,
     new_cfg |-> new_cfg]

\* forwarding that reports every unsuccessful reply of the leader as a
\* dispatch error
ForwardJoinMaskingErrors(req, cache, remote) ==
    IF ~HasValue(leader_id) \/ ~contains_broker(raft0.cfg, Value(leader_id))
    THEN Outcome("forward", JoinError(errc_no_leader_controller), cache, None)
    ELSE Outcome("forward",
                 IF remote = "ok" THEN RemoteJoinReply(req, remote)
                 ELSE JoinError(errc_join_request_dispatch_error),
                 with_client(cache, Value(leader_id),
                             Value(find_broker(raft0.cfg, Value(leader_id))).rpc),
                 None)

\* forwarding that does not look the leader up in the raft0 configuration
\* (the test of lines 633-635 left out; the address comes from elsewhere)
ForwardJoinToUnlistedLeader(req, cache, remote) ==
    IF ~HasValue(leader_id)
    THEN Outcome("forward", JoinError(errc_no_leader_controller), cache, None)
    ELSE Outcome("forward", RemoteJoinReply(req, remote),
                 with_client(cache, Value(leader_id),
                             IF contains_broker(raft0.cfg, Value(leader_id))
                             THEN Value(find_broker(raft0.cfg,
                                                    Value(leader_id))).rpc
                             ELSE NumAddrs),
                 None)

\* members_manager::dispatch_rpc_to_leader carrying a join request
ForwardJoin(req, cache, remote) ==
    IF ~HasValue(leader_id) \/ ~contains_broker(raft0.cfg, Value(leader_id))
    THEN Outcome("forward", JoinError(errc_no_leader_controller), cache, None)
    ELSE Outcome("forward", RemoteJoinReply(req, remote),
                 with_client(cache, Value(leader_id),
                             Value(find_broker(raft0.cfg, Value(leader_id))).rpc),
                 None)

\* admission that connects to the new broker only once raft0 accepted it
\* (lines 850-857 moved after add_group_members)
AdmitConnectingLate(req, cache, raft_ok, remote) ==
    IF contains_broker(raft0.cfg, req.node.id)
    THEN LET u == handle_configuration_update_request(
                     req.node, SelfId, cache, raft_ok, remote)
         IN Outcome("update",
               IF u.reply.err = errc_success
               THEN JoinReply(errc_success, u.reply.success,
                              IF u.reply.success THEN req.node.id
                              ELSE unassigned_node_id)
               ELSE JoinError(u.reply.err),
               u.cache, u.new_cfg)
    ELSE IF ~feature_active /\ contains_address(raft0.cfg, req.node.rpc)
    THEN Outcome("address_conflict",
                 JoinReply(errc_success, FALSE, unassigned_node_id), cache, None)
    ELSE LET warmed == IF req.node.id /= SelfId
                       THEN update_broker_client(cache, req.node.id, req.node.rpc)
                       ELSE cache
         IN IF RaftAccepts(raft_ok)
            THEN Outcome("add", JoinReply(errc_success, TRUE, req.node.id),
                         warmed, Some(CfgAdd(raft0.cfg, req.node)))
            ELSE Outcome("add", JoinError(raft_errc_error), cache, None)

\* admission without the address check of older versions (lines 838-848
\* left out)
AdmitIgnoringAddress(req, cache, raft_ok, remote) ==
    IF contains_broker(raft0.cfg, req.node.id)
    THEN LET u == handle_configuration_update_request(
                     req.node, SelfId, cache, raft_ok, remote)
         IN Outcome("update",
               IF u.reply.err = errc_success
               THEN JoinReply(errc_success, u.reply.success,
                              IF u.reply.success THEN req.node.id
                              ELSE unassigned_node_id)
               ELSE JoinError(u.reply.err),
               u.cache, u.new_cfg)
    ELSE LET warmed == IF req.node.id /= SelfId
                       THEN update_broker_client(cache, req.node.id, req.node.rpc)
                       ELSE cache
         IN IF RaftAccepts(raft_ok)
            THEN Outcome("add", JoinReply(errc_success, TRUE, req.node.id),
                         warmed, Some(CfgAdd(raft0.cfg, req.node)))
            ELSE Outcome("add", JoinError(raft_errc_error), warmed, None)

\* admission that adds the broker without looking for it in the raft0
\* configuration first (lines 816-834 left out)
AdmitAlwaysAdding(req, cache, raft_ok, remote) ==
    IF ~feature_active /\ contains_address(raft0.cfg, req.node.rpc)
    THEN Outcome("address_conflict",
                 JoinReply(errc_success, FALSE, unassigned_node_id), cache, None)
    ELSE LET warmed == IF req.node.id /= SelfId
                       THEN update_broker_client(cache, req.node.id, req.node.rpc)
                       ELSE cache
         IN IF RaftAccepts(raft_ok)
            THEN Outcome("add", JoinReply(errc_success, TRUE, req.node.id),
                         warmed, Some(CfgAdd(raft0.cfg, req.node)))
            ELSE Outcome("add", JoinError(raft_errc_error), warmed, None)

\* lines 816-874: the broker is updated in, or added to, the raft0 group
Admit(req, cache, raft_ok, remote) ==
    IF contains_broker(raft0.cfg, req.node.id)
    THEN LET u == handle_configuration_update_request(
                     req.node, SelfId, cache, raft_ok, remote)
         IN Outcome("update",
               IF u.reply.err = errc_success
               THEN JoinReply(errc_success, u.reply.success,
                              IF u.reply.success THEN req.node.id
                              ELSE unassigned_node_id)
               ELSE JoinError(u.reply.err),
               u.cache, u.new_cfg)
    ELSE IF ~feature_active /\ contains_address(raft0.cfg, req.node.rpc)
    THEN Outcome("address_conflict",
                 JoinReply(errc_success, FALSE, unassigned_node_id), cache, None)
    ELSE LET warmed == IF req.node.id /= SelfId
                       THEN update_broker_client(cache, req.node.id, req.node.rpc)
                       ELSE cache
         IN IF RaftAccepts(raft_ok)
            THEN Outcome("add", JoinReply(errc_success, TRUE, req.node.id),
                         warmed, Some(CfgAdd(raft0.cfg, req.node)))
            ELSE Outcome("add", JoinError(raft_errc_error), warmed, None)

Replicate(path, cmd) == [done |-> FALSE, path |-> path, cmd |-> cmd]

\* the registry checks without the removed-node check of lines 792-804
RegistryChecksWithoutRemoved(req, cache, raft_ok, remote) ==
    LET node_uuid == req.node_uuid.val
        known == node_uuid \in DOMAIN id_by_uuid
    IN IF ~HasValue(req_node_id(req))
       THEN IF ~known
            THEN Replicate("assign",
                           Command("register_node_uuid", node_uuid, None))
            ELSE Outcome("assigned",
                         JoinReply(errc_success, TRUE, id_by_uuid[node_uuid]),
                         cache, None)
       ELSE IF ~known
       THEN Replicate("register",
                      Command("register_node_uuid", node_uuid, req_node_id(req)))
       ELSE IF Value(req_node_id(req)) /= id_by_uuid[node_uuid]
       THEN Outcome("id_mismatch",
                    JoinReply(errc_success, FALSE, unassigned_node_id),
                    cache, None)
       ELSE Admit(req, cache, raft_ok, remote)

\* the registry checks replicating a registration for every uuid-only
\* request, bound or not
RegistryChecksAlwaysReplicating(req, cache, raft_ok, remote) ==
    LET node_uuid == req.node_uuid.val
        known == node_uuid \in DOMAIN id_by_uuid
    IN IF ~HasValue(req_node_id(req))
       THEN Replicate("assign", Command("register_node_uuid", node_uuid, None))
       ELSE IF ~known
       THEN Replicate("register",
                      Command("register_node_uuid", node_uuid, req_node_id(req)))
       ELSE IF Value(req_node_id(req)) /= id_by_uuid[node_uuid]
       THEN Outcome("id_mismatch",
                    JoinReply(errc_success, FALSE, unassigned_node_id),
                    cache, None)
       ELSE IF get_removed_node_metadata_ref(LocalTable, id_by_uuid[node_uuid])
       THEN Outcome("removed",
                    JoinReply(errc_success, FALSE, unassigned_node_id),
                    cache, None)
       ELSE Admit(req, cache, raft_ok, remote)

\* the registry checks without the comparison of lines 786-791
RegistryChecksWithoutMismatch(req, cache, raft_ok, remote) ==
    LET node_uuid == req.node_uuid.val
        known == node_uuid \in DOMAIN id_by_uuid
    IN IF ~HasValue(req_node_id(req))
       THEN IF ~known
            THEN Replicate("assign",
                           Command("register_node_uuid", node_uuid, None))
            ELSE Outcome("assigned",
                         JoinReply(errc_success, TRUE, id_by_uuid[node_uuid]),
                         cache, None)
       ELSE IF ~known
       THEN Replicate("register",
                      Command("register_node_uuid", node_uuid, req_node_id(req)))
       ELSE IF get_removed_node_metadata_ref(LocalTable, id_by_uuid[node_uuid])
       THEN Outcome("removed",
                    JoinReply(errc_success, FALSE, unassigned_node_id),
                    cache, None)
       ELSE Admit(req, cache, raft_ok, remote)

\* registry checks whose refusal of a mismatching id names the id the uuid
\* is bound to (join_node_reply{false, it->second} at line 789)
RegistryChecksNamingBoundId(req, cache, raft_ok, remote) ==
    LET node_uuid == req.node_uuid.val
        known == node_uuid \in DOMAIN id_by_uuid
    IN IF ~HasValue(req_node_id(req))
       THEN IF ~known
            THEN Replicate("assign",
                           Command("register_node_uuid", node_uuid, None))
            ELSE Outcome("assigned",
                         JoinReply(errc_success, TRUE, id_by_uuid[node_uuid]),
                         cache, None)
       ELSE IF ~known
       THEN Replicate("register",
                      Command("register_node_uuid", node_uuid, req_node_id(req)))
       ELSE IF Value(req_node_id(req)) /= id_by_uuid[node_uuid]
       THEN Outcome("id_mismatch",
                    JoinReply(errc_success, FALSE, id_by_uuid[node_uuid]),
                    cache, None)
       ELSE IF get_removed_node_metadata_ref(LocalTable, id_by_uuid[node_uuid])
       THEN Outcome("removed",
                    JoinReply(errc_success, FALSE, unassigned_node_id),
                    cache, None)
       ELSE Admit(req, cache, raft_ok, remote)

\* lines 763-811: the registry checks on the leader when the request carries
\* a uuid and node_id_assignment is active
RegistryChecks(req, cache, raft_ok, remote) ==
    LET node_uuid == req.node_uuid.val
        known == node_uuid \in DOMAIN id_by_uuid
    IN IF ~HasValue(req_node_id(req))
       THEN IF ~known
            THEN Replicate("assign",
                           Command("register_node_uuid", node_uuid, None))
            ELSE Outcome("assigned",
                         JoinReply(errc_success, TRUE, id_by_uuid[node_uuid]),
                         cache, None)
       ELSE IF ~known
       THEN Replicate("register",
                      Command("register_node_uuid", node_uuid, req_node_id(req)))
       ELSE IF Value(req_node_id(req)) /= id_by_uuid[node_uuid]
       THEN Outcome("id_mismatch",
                    JoinReply(errc_success, FALSE, unassigned_node_id),
                    cache, None)
       ELSE IF get_removed_node_metadata_ref(LocalTable, id_by_uuid[node_uuid])
       THEN Outcome("removed",
                    JoinReply(errc_success, FALSE, unassigned_node_id),
                    cache, None)
       ELSE Admit(req, cache, raft_ok, remote)

\* members_manager::handle_join_request up to its first suspension on the
\* controller log, or to its reply
JoinOutcome(req, cache, raft_ok, remote) ==
    IF InvalidJoinRequest(req)
    THEN Outcome("invalid", JoinError(errc_invalid_request), cache, None)
    ELSE IF leader_id /= Some(SelfId)
    THEN ForwardJoin(req, cache, remote)
    ELSE IF feature_active /\ req_has_node_uuid(req)
    THEN RegistryChecks(req, cache, raft_ok, remote)
    ELSE Admit(req, cache, raft_ok, remote)

\* members_manager::replicate_new_node_uuid after replicate_and_wait returned
\* err, and the rest of handle_join_request
ResumeOutcome(req, err, cache, raft_ok, remote) ==
    LET node_uuid == req.node_uuid.val
    IN IF err /= errc_success
       THEN Outcome("register_failed", JoinError(err), cache, None)
       ELSE IF HasValue(req_node_id(req))
               /\ id_by_uuid[node_uuid] /= Value(req_node_id(req))
       THEN Outcome("register_failed", JoinError(errc_invalid_request),
                    cache, None)
       ELSE IF ~HasValue(req_node_id(req))
       THEN Outcome("assigned",
                    JoinReply(errc_success, TRUE, id_by_uuid[node_uuid]),
                    cache, None)
       ELSE Admit(req, cache, raft_ok, remote)

\* found: the uuid was bound when the handler looked it up (line 764);
\* remote: what the leader answered, where the request was forwarded
JoinDone(req, found, remote, out) ==
    [op |-> "join", uuid |-> req.node_uuid, id |-> req.node.id,
     node |-> req.node, found |-> found, remote |-> remote,
     path |-> out.path, reply |-> out.reply]

Found(req) == req_has_node_uuid(req) /\ req.node_uuid.val \in DOMAIN id_by_uuid

\* handle_join_request is invoked with req
HandleJoinRequest(s, req, raft_ok, remote) ==
    /\ ~crashed
    /\ joins[s].pc = "idle"
    /\ LET out == JoinOutcome(req, connection_cache, raft_ok, remote)
       IN IF out.done
          THEN /\ Effects(out)
               /\ last_op' = JoinDone(req, Found(req), remote, out)
               /\ UNCHANGED joins
          ELSE /\ CanAppend
               /\ log' = Append(log, CommandBatch(next_offset, out.cmd))
               /\ next_offset' = next_offset + 1
               /\ joins' = [joins EXCEPT ![s] =
                              [pc |-> "wait", req |-> req, offset |-> next_offset]]
               /\ last_op' = NoOp
               /\ UNCHANGED <<raft0, connection_cache>>
    /\ UNCHANGED client_vars
    /\ UNCHANGED <<feature_active, registry_vars, members_table, leader_id,
                   last_connection_update_offset, queue_vars, started,
                   side_vars, replica, succeeded, crashed>>

\* the registration command was applied: handle_join_request continues
JoinResume(s, raft_ok, remote) ==
    /\ ~crashed
    /\ joins[s].pc = "applied"
    /\ LET req == joins[s].req
           bound == req.node_uuid.val \in DOMAIN id_by_uuid
       IN IF joins[s].err = errc_success /\ ~bound
          THEN \* get_node_id: "Node registration must be completed"
               /\ crashed' = TRUE
               /\ last_op' = NoOp
               /\ UNCHANGED <<raft0, connection_cache, log_vars>>
          ELSE LET out == ResumeOutcome(req, joins[s].err, connection_cache,
                                        raft_ok, remote)
               IN /\ Effects(out)
                  /\ last_op' = JoinDone(req, FALSE, remote, out)
                  /\ UNCHANGED crashed
    /\ joins' = [joins EXCEPT ![s] = IdleJoin]
    /\ UNCHANGED client_vars
    /\ UNCHANGED <<feature_active, registry_vars, members_table, leader_id,
                   last_connection_update_offset, queue_vars, started,
                   side_vars, replica, succeeded>>

\* replicate_and_wait gives up before the command is applied
JoinTimeout(s) ==
    /\ ~crashed
    /\ joins[s].pc = "wait"
    /\ joins' = [joins EXCEPT ![s] = IdleJoin]
    /\ last_op' = JoinDone(joins[s].req, FALSE, "ok",
                           Outcome("register_failed", JoinError(errc_timeout),
                                   connection_cache, None))
    /\ UNCHANGED client_vars
    /\ UNCHANGED <<feature_active, registry_vars, members_table, raft_vars,
                   connection_cache, last_connection_update_offset, queue_vars,
                   log_vars, started, side_vars, replica, succeeded, crashed>>

\* ============================================================ specification
\* the broker record a node with the given id and rpc address advertises
Descriptor(id, rpc) == Broker(id, rpc, 2, <<rpc>>)

\* get_node_updates called on an empty queue (lines 351-354): it waits in
\* pop_eventually, which fails at once on an aborted queue
get_node_updates_on_empty ==
    /\ ~crashed
    /\ consumer = "idle"
    /\ update_queue = <<>>
    /\ IF queue_ex
       THEN /\ last_op' = [op |-> "get_node_updates", updates |-> <<>>,
                           error |-> abort_requested_exception]
            /\ UNCHANGED consumer
       ELSE /\ consumer' = "waiting"
            /\ last_op' = NoOp
    /\ UNCHANGED <<as_fired, queue_ex, gate_closed, loop_vars>>
    /\ UNCHANGED <<feature_active, registry_vars, members_table, raft_vars,
                   connection_cache, last_connection_update_offset, queue_vars,
                   log_vars, joins, started, side_vars, replica, succeeded,
                   crashed>>

\* the waiting call resumes with the one event pop_eventually hands over
pop_eventually_resumes ==
    /\ ~crashed
    /\ consumer = "waiting"
    /\ update_queue /= <<>>
    /\ consumer' = "idle"
    /\ update_queue' = Tail(update_queue)
    /\ last_op' = [op |-> "get_node_updates", updates |-> <<Head(update_queue)>>,
                   error |-> errc_success]
    /\ UNCHANGED <<as_fired, queue_ex, gate_closed, loop_vars>>
    /\ UNCHANGED <<feature_active, registry_vars, members_table, raft_vars,
                   connection_cache, last_connection_update_offset,
                   pending_updates, log_vars, joins, started, side_vars,
                   replica, succeeded, crashed>>

UpdateConsumer ==
    \/ get_node_updates_on_empty
    \/ pop_eventually_resumes

EnvRaft ==
    \/ \E id \in SmallIds, rpc \in Addrs : RaftAddBroker(Descriptor(id, rpc))
    \/ \E id \in SmallIds : RaftRemoveBegin(id)
    \/ RaftRemoveFinish

EnvLeader ==
    \E l \in {None} \cup {Some(i) : i \in NodeIds} : RaftLeaderChange(l)

ApplyMembership ==
    \/ ApplyRaftConfiguration
    \/ ApplyDecommissionNode
    \/ ApplyRecommissionNode
    \/ ApplyFinishReallocations
    \/ ApplyMaintenanceMode

UpdateQueue ==
    \/ ApplierResume
    \/ get_node_updates

\* the outcomes of the consensus layer and of the remote end are drawn only
\* on the paths that consult them
RaftChoices(path) == IF path \in {"add", "update"} THEN BOOLEAN ELSE {TRUE}

RemoteChoices(path) ==
    IF path \in {"forward", "update"} /\ leader_id /= Some(SelfId)
    THEN RemoteOutcomes ELSE {"ok"}

JoinPath(req) == JoinOutcome(req, connection_cache, TRUE, "ok").path

ResumePath(s) ==
    IF joins[s].pc = "applied" /\ joins[s].req.node_uuid.val \in DOMAIN id_by_uuid
    THEN ResumeOutcome(joins[s].req, joins[s].err, connection_cache, TRUE, "ok").path
    ELSE "none"

\* join requests handled in the given slots, at most one per slot at a time
JoinsIn(slots, reqs) ==
    \/ \E s \in slots, req \in reqs :
          \E raft_ok \in RaftChoices(JoinPath(req)),
             remote \in RemoteChoices(JoinPath(req)) :
             HandleJoinRequest(s, req, raft_ok, remote)
    \/ \E s \in slots :
          \E raft_ok \in RaftChoices(ResumePath(s)),
             remote \in RemoteChoices(ResumePath(s)) :
             JoinResume(s, raft_ok, remote)
    \/ \E s \in slots : JoinTimeout(s)

\* join requests handled one after the other
Joins(reqs) == JoinsIn({1}, reqs)

\* ------------------------------------------------------- the join loop
CountAttempt(n) == IF n < MaxAttempts THEN n + 1 ELSE MaxAttempts

\* config::node().seed_servers(): a remote seed, then this node's own address
seed_servers == <<NumAddrs, SelfBroker.rpc>>

\* lines 488-492: the join request of this node
SelfJoinRequest == [node_uuid |-> Uuid(1), node |-> SelfBroker]

\* wait_for_next_join_retry followed by stop_iteration::no: sleep_aborted is
\* swallowed and the loop goes on with the next pass
wait_for_next_join_retry == IF as_fired THEN "attempt" ELSE "sleep"

\* members_manager::join_raft0, spawned by join_cluster for a node that is
\* not a member
join_raft0 ==
    /\ ~crashed
    /\ ~gate_closed
    /\ joiner.pc = "idle"
    /\ ~is_already_member
    /\ joiner' = [pc |-> "attempt", attempts |-> 0, seed |-> 1]
    /\ last_op' = NoOp
    /\ UNCHANGED <<as_fired, queue_ex, gate_closed, consumer, updater>>
    /\ UNCHANGED <<feature_active, registry_vars, members_table, raft_vars,
                   connection_cache, last_connection_update_offset, queue_vars,
                   log_vars, joins, started, side_vars, replica, succeeded,
                   crashed>>

\* a pass that ends at the first seed that replies at all, whatever the reply
\* says (!r.value().success of line 596 left out)
dispatch_join_until_reply(raft_ok, remote) ==
    /\ ~crashed
    /\ joiner.pc = "attempt"
    /\ joiner.seed <= Len(seed_servers)
    /\ LET local == seed_servers[joiner.seed] = SelfBroker.rpc
           out == IF local
                  THEN JoinOutcome(SelfJoinRequest, connection_cache, raft_ok,
                                   remote)
                  ELSE Outcome("remote", RemoteJoinReply(SelfJoinRequest, remote),
                               connection_cache, None)
       IN /\ out.done
          /\ Effects(out)
          /\ joiner' = IF out.reply.err = errc_success
                       THEN [joiner EXCEPT !.pc = "done"]
                       ELSE [joiner EXCEPT !.seed = @ + 1]
          /\ last_op' = [op |-> "join_attempt", seed |-> joiner.seed,
                         local |-> local, remote |-> remote,
                         reply |-> out.reply]
    /\ UNCHANGED <<as_fired, queue_ex, gate_closed, consumer, updater>>
    /\ UNCHANGED <<feature_active, registry_vars, members_table, leader_id,
                   last_connection_update_offset, queue_vars, joins, started,
                   side_vars, replica, succeeded, crashed>>

\* dispatch_join_to_seed_server at a seed: served by handle_join_request when
\* the seed is this node, sent with a one-shot client otherwise; success ends
\* the loop, anything else moves on to the next seed
dispatch_join_to_seed_server(raft_ok, remote) ==
    /\ ~crashed
    /\ joiner.pc = "attempt"
    /\ joiner.seed <= Len(seed_servers)
    /\ LET local == seed_servers[joiner.seed] = SelfBroker.rpc
           out == IF local
                  THEN JoinOutcome(SelfJoinRequest, connection_cache, raft_ok,
                                   remote)
                  ELSE Outcome("remote", RemoteJoinReply(SelfJoinRequest, remote),
                               connection_cache, None)
       IN /\ out.done
          /\ Effects(out)
          /\ joiner' = IF out.reply.err = errc_success /\ out.reply.success
                       THEN [joiner EXCEPT !.pc = "done"]
                       ELSE [joiner EXCEPT !.seed = @ + 1]
          /\ last_op' = [op |-> "join_attempt", seed |-> joiner.seed,
                         local |-> local, remote |-> remote,
                         reply |-> out.reply]
    /\ UNCHANGED <<as_fired, queue_ex, gate_closed, consumer, updater>>
    /\ UNCHANGED <<feature_active, registry_vars, members_table, leader_id,
                   last_connection_update_offset, queue_vars, joins, started,
                   side_vars, replica, succeeded, crashed>>

\* dispatch_join_to_seed_server past the last seed, and the continuation of
\* join_raft0 (lines 493-506) on its result
seed_servers_exhausted ==
    /\ ~crashed
    /\ joiner.pc = "attempt"
    /\ joiner.seed > Len(seed_servers)
    /\ joiner' = IF gate_closed \/ is_already_member
                 THEN [joiner EXCEPT !.pc = "done"]
                 ELSE [joiner EXCEPT !.pc = wait_for_next_join_retry,
                                     !.seed = 1,
                                     !.attempts = CountAttempt(@)]
    /\ last_op' = [op |-> "join_pass", result |-> errc_seed_servers_exhausted]
    /\ UNCHANGED <<as_fired, queue_ex, gate_closed, consumer, updater>>
    /\ UNCHANGED <<feature_active, registry_vars, members_table, raft_vars,
                   connection_cache, last_connection_update_offset, queue_vars,
                   log_vars, joins, started, side_vars, replica, succeeded,
                   crashed>>

\* the join retry timeout elapsed
JoinerWake ==
    /\ ~crashed
    /\ joiner.pc = "sleep"
    /\ joiner' = [joiner EXCEPT !.pc = "attempt"]
    /\ last_op' = NoOp
    /\ UNCHANGED <<as_fired, queue_ex, gate_closed, consumer, updater>>
    /\ UNCHANGED <<feature_active, registry_vars, members_table, raft_vars,
                   connection_cache, last_connection_update_offset, queue_vars,
                   log_vars, joins, started, side_vars, replica, succeeded,
                   crashed>>

\* members_manager::stop closes the gate
stop ==
    /\ ~crashed
    /\ ~gate_closed
    /\ gate_closed' = TRUE
    /\ last_op' = [op |-> "stop"]
    /\ UNCHANGED <<as_fired, queue_ex, consumer, loop_vars>>
    /\ UNCHANGED <<feature_active, registry_vars, members_table, raft_vars,
                   connection_cache, last_connection_update_offset, queue_vars,
                   log_vars, joins, started, side_vars, replica, succeeded,
                   crashed>>

\* ------------------------------------------- the configuration update loop
\* get_update_request_target: the leader when it is a broker of the
\* configuration, any broker otherwise
get_update_request_target(current_leader, brokers) ==
    IF /\ HasValue(current_leader)
       /\ \E i \in 1..Len(brokers) : brokers[i].id = Value(current_leader)
    THEN {brokers[i] : i \in {j \in 1..Len(brokers) :
                                 brokers[j].id = Value(current_leader)}}
    ELSE Range(brokers)

\* do_dispatch_configuration_update: served in-process when the target is
\* this node, sent with with_client otherwise
do_dispatch_configuration_update(target, updated_cfg, cache, raft_ok, remote) ==
    IF target.id = SelfId
    THEN handle_configuration_update_request(updated_cfg, SelfId, cache,
                                             raft_ok, remote)
    ELSE [reply |-> RemoteUpdateReply(remote),
          cache |-> with_client(cache, target.id, target.rpc),
          new_cfg |-> None]

\* an attempt that makes the loop go on as soon as the call returned no
\* error, whatever the reply says
UpdateFailedOnErrorOnly(r) == r.err /= errc_success

\* line 936: r.has_error() || r.value().success == false
UpdateFailed(r) == r.err /= errc_success \/ ~r.success

\* ss::sleep_abortable on an abort source that fired throws at once
SleepOrAbort == IF as_fired THEN "aborted" ELSE "sleep"

\* maybe_update_current_node_configuration: the broker record of this node
\* differs from the one in the raft0 configuration
maybe_update_current_node_configuration(self) ==
    /\ ~crashed
    /\ updater.pc = "idle"
    /\ contains_broker(raft0.cfg, SelfId)
    /\ Value(find_broker(raft0.cfg, SelfId)) /= self
    /\ updater' = [pc |-> "attempt", attempts |-> 0, broker |-> self]
    /\ last_op' = NoOp
    /\ UNCHANGED <<as_fired, queue_ex, gate_closed, consumer, joiner>>
    /\ UNCHANGED <<feature_active, registry_vars, members_table, raft_vars,
                   connection_cache, last_connection_update_offset, queue_vars,
                   log_vars, joins, started, side_vars, replica, succeeded,
                   crashed>>

\* dispatch_configuration_update, one iteration of the while loop
dispatch_configuration_update(target, raft_ok, remote) ==
    /\ ~crashed
    /\ updater.pc = "attempt"
    /\ target \in get_update_request_target(leader_id, raft0.cfg.brokers)
    /\ LET r == do_dispatch_configuration_update(
                   target, updater.broker, connection_cache, raft_ok, remote)
       IN /\ Effects(r)
          /\ updater' = [updater EXCEPT
                           !.pc = IF UpdateFailed(r.reply)
                                  THEN SleepOrAbort ELSE "done",
                           !.attempts = CountAttempt(@)]
          /\ last_op' = [op |-> "dispatch_configuration_update",
                         target |-> target.id, reply |-> r.reply]
    /\ UNCHANGED <<as_fired, queue_ex, gate_closed, consumer, joiner>>
    /\ UNCHANGED <<feature_active, registry_vars, members_table, leader_id,
                   last_connection_update_offset, queue_vars, joins, started,
                   side_vars, replica, succeeded, crashed>>

\* the base retry duration elapsed
UpdaterWake ==
    /\ ~crashed
    /\ updater.pc = "sleep"
    /\ updater' = [updater EXCEPT !.pc = "attempt"]
    /\ last_op' = NoOp
    /\ UNCHANGED <<as_fired, queue_ex, gate_closed, consumer, joiner>>
    /\ UNCHANGED <<feature_active, registry_vars, members_table, raft_vars,
                   connection_cache, last_connection_update_offset, queue_vars,
                   log_vars, joins, started, side_vars, replica, succeeded,
                   crashed>>

\* an abort source nobody subscribed to: the update queue is left alone
AbortRequestedWithoutSubscription ==
    /\ ~crashed
    /\ ~as_fired
    /\ as_fired' = TRUE
    /\ updater' = IF updater.pc = "sleep"
                  THEN [updater EXCEPT !.pc = "aborted"] ELSE updater
    /\ last_op' = [op |-> "abort", producer_failed |-> FALSE,
                   consumer_failed |-> FALSE]
    /\ UNCHANGED <<queue_ex, queue_vars, consumer, gate_closed, joiner>>
    /\ UNCHANGED <<feature_active, registry_vars, members_table, raft_vars,
                   connection_cache, last_connection_update_offset, log_vars,
                   joins, started, side_vars, replica, succeeded, crashed>>

\* _as.local().request_abort(): the subscription of the constructor aborts
\* the update queue, sleeps in progress end with sleep_aborted
AbortRequested ==
    /\ ~crashed
    /\ ~as_fired
    /\ as_fired' = TRUE
    /\ queue_ex' = TRUE
    /\ update_queue' = <<>>
    /\ pending_updates' = <<>>
    /\ consumer' = "idle"
    /\ updater' = IF updater.pc = "sleep"
                  THEN [updater EXCEPT !.pc = "aborted"] ELSE updater
    /\ joiner' = IF joiner.pc = "sleep"
                 THEN [joiner EXCEPT !.pc = "attempt"] ELSE joiner
    /\ last_op' = [op |-> "abort",
                   producer_failed |-> pending_updates /= <<>>,
                   consumer_failed |-> consumer = "waiting"]
    /\ UNCHANGED gate_closed
    /\ UNCHANGED <<feature_active, registry_vars, members_table, raft_vars,
                   connection_cache, last_connection_update_offset, log_vars,
                   joins, started, side_vars, replica, succeeded, crashed>>

UpdatesOf(nodes, targets) ==
    \E node \in nodes, target \in targets :
       \E raft_ok \in BOOLEAN, remote \in RemoteChoices("update") :
          HandleConfigurationUpdateRequest(node, target, raft_ok, remote)

ConfigurationUpdates == UpdatesOf(RequestBrokers(NodeIds), NodeIds)

\* a second load fails whatever the map is: one map stands for all
LoadableMaps(ids) ==
    IF id_by_uuid = <<>> THEN InitialMaps(ids)
    ELSE {[u \in {1} |-> CHOOSE i \in ids : TRUE]}

\* the whole members manager
Next ==
    \/ \E m \in LoadableMaps(SmallIds) : apply_initial_node_uuid_map(m)
    \/ start
    \/ \E c \in ManagementCommands \cup RegisterCommands(SmallIds) :
          SubmitCommand(c)
    \/ EnvRaft
    \/ EnvLeader
    \/ ReplicaObserveRaft0
    \/ ApplyMembership
    \/ ApplyRegisterNodeUuid
    \/ UpdateQueue
    \/ Joins(JoinRequests(NodeIds))
    \/ ConfigurationUpdates

Spec == Init /\ [][Next]_vars

\* the id registry under arbitrary registration commands and initial maps,
\* with ids up to INT_MAX
RegistryIds == {1, INT_MAX - 2, INT_MAX - 1, INT_MAX}

NextRegistry ==
    \/ \E m \in LoadableMaps(RegistryIds) : apply_initial_node_uuid_map(m)
    \/ \E c \in RegisterCommands(RegistryIds) : SubmitCommand(c)
    \/ \E id \in SmallIds \cup {INT_MAX - 1} : RaftAddBroker(Descriptor(id, 2))
    \/ \E id \in SmallIds \cup {INT_MAX - 1} : RaftRemoveBegin(id)
    \/ RaftRemoveFinish
    \/ ApplyRaftConfiguration
    \/ ApplyRegisterNodeUuid

\* the abort source had not fired when the members manager was constructed
InitRunning == Init /\ ~as_fired /\ is_already_member

\* a node that has yet to join the cluster
InitJoining == Init /\ ~as_fired /\ ~is_already_member /\ feature_active = TRUE
                  /\ leader_id = None

InitActive == InitRunning /\ feature_active = TRUE /\ leader_id = None

\* the node leads the controller group from the beginning
InitLeading == InitRunning /\ feature_active = TRUE /\ leader_id = Some(SelfId)

SpecRegistry == InitActive /\ [][NextRegistry]_vars

\* start() against the replay of configuration batches
NextStart ==
    \/ start
    \/ EnvRaft
    \/ ApplyRaftConfiguration
    \/ UpdateQueue

SpecStart == InitActive /\ [][NextStart]_vars

\* the command applier on two instances whose consensus layers are observed
\* at different times
NextApply ==
    \/ \E c \in ManagementCommands : SubmitCommand(c)
    \/ EnvRaft
    \/ ReplicaObserveRaft0
    \/ ApplyMembership
    \/ UpdateQueue

SpecApply == InitActive /\ [][NextApply]_vars

\* request validation, forwarding and the legacy address check: leader and
\* non-leader nodes, node_id_assignment active and inactive
GateInputs ==
    {[node_uuid |-> u, node |-> Descriptor(id, rpc)] :
        u \in {NoUuid, ShortUuid, Uuid(1)},
        id \in {1, unassigned_node_id}, rpc \in Addrs}

NextGate ==
    \/ \E l \in {None, Some(SelfId), Some(MaxNodeId)} : RaftLeaderChange(l)
    \/ RaftAddBroker(Descriptor(MaxNodeId, NumAddrs))
    \/ ApplyRaftConfiguration
    \/ ApplyRegisterNodeUuid
    \/ Joins(GateInputs)

\* update_node_configuration requests on leaders and non-leaders, about
\* this node and about broker 1
UpdateInputs == RequestBrokers({1}) \cup {SelfBroker}

NextUpdate ==
    \/ \E l \in {None, Some(SelfId), Some(1)} : RaftLeaderChange(l)
    \/ RaftAddBroker(Descriptor(1, NumAddrs))
    \/ ApplyRaftConfiguration
    \/ UpdatesOf(UpdateInputs, {SelfId, 1})

SpecUpdate == InitRunning /\ [][NextUpdate]_vars

\* configurations of one or two brokers that calculate_changed_nodes is
\* evaluated on against the members tables SpecUpdate reaches
DiffBrokers == UpdateInputs \cup {Descriptor(MaxNodeId, 1)}

DiffConfigurations ==
    {GroupConfiguration(bs, "simple", {}) :
        bs \in {<<a>> : a \in DiffBrokers}
               \cup {p \in DiffBrokers \X DiffBrokers : p[1].id /= p[2].id}}

\* the update queue between the applier and its consumer, and its abort
QueueCommands == {Command("finish_reallocations", id, None) : id \in {1}}

NextQueue ==
    \/ \E c \in QueueCommands : SubmitCommand(c)
    \/ \E id \in SmallIds : RaftAddBroker(Descriptor(id, NumAddrs))
    \/ ApplyRaftConfiguration
    \/ ApplyFinishReallocations
    \/ UpdateQueue
    \/ UpdateConsumer
    \/ AbortRequested

\* a member node whose abort source may have fired before construction
InitQueue ==
    Init /\ is_already_member /\ feature_active = TRUE /\ leader_id = None

SpecQueue == InitQueue /\ [][NextQueue]_vars

\* the applier against a consumer that keeps calling get_node_updates, the
\* abort source never firing
Consumer ==
    \/ get_node_updates
    \/ UpdateConsumer

NextDrain ==
    \/ \E c \in QueueCommands : SubmitCommand(c)
    \/ \E id \in SmallIds : RaftAddBroker(Descriptor(id, NumAddrs))
    \/ ApplyRaftConfiguration
    \/ ApplyFinishReallocations
    \/ ApplierResume
    \/ Consumer

SpecDrain ==
    /\ InitActive
    /\ [][NextDrain]_vars
    /\ WF_vars(Consumer)
    /\ WF_vars(ApplierResume)

\* a node joining through its seed servers
NextSeed ==
    \/ \E l \in {None, Some(1)} : RaftLeaderChange(l)
    \/ RaftAddBroker(SelfBroker)
    \/ ApplyRaftConfiguration
    \/ join_raft0
    \/ \E raft_ok \in BOOLEAN, remote \in RemoteOutcomes :
          dispatch_join_to_seed_server(raft_ok, remote)
    \/ seed_servers_exhausted
    \/ JoinerWake
    \/ AbortRequested
    \/ stop

SpecSeed == InitJoining /\ [][NextSeed]_vars

\* the client-side retry loops and the abort source
SelfRecords == RequestBrokers({SelfId})

NextClient ==
    \/ \E l \in {None, Some(SelfId), Some(MaxNodeId)} : RaftLeaderChange(l)
    \/ RaftAddBroker(Descriptor(MaxNodeId, NumAddrs))
    \/ ApplyRaftConfiguration
    \/ \E self \in SelfRecords : maybe_update_current_node_configuration(self)
    \/ \E target \in Range(raft0.cfg.brokers), raft_ok \in BOOLEAN,
          remote \in RemoteOutcomes :
             dispatch_configuration_update(target, raft_ok, remote)
    \/ UpdaterWake
    \/ AbortRequested

SpecClient == InitRunning /\ [][NextClient]_vars

SpecGate == InitRunning /\ [][NextGate]_vars

\* every operation that touches the connection cache, with requests and
\* updates that carry this node's own id
CacheJoinInputs ==
    {[node_uuid |-> Uuid(1), node |-> b] :
        b \in {Broker(SelfId, NumAddrs, 2, <<1>>), Descriptor(1, NumAddrs)}}

CacheUpdateInputs == {Broker(SelfId, NumAddrs, 2, <<1>>), Descriptor(1, 1)}

NextCache ==
    \/ start
    \/ \E l \in {Some(SelfId), Some(1)} : RaftLeaderChange(l)
    \/ RaftAddBroker(Descriptor(1, NumAddrs))
    \/ RaftRemoveBegin(1)
    \/ RaftRemoveFinish
    \/ ApplyRaftConfiguration
    \/ ApplyRegisterNodeUuid
    \/ Joins(CacheJoinInputs)
    \/ UpdatesOf(CacheUpdateInputs, {SelfId})

SpecCache == InitActive /\ [][NextCache]_vars

\* the diffs update_connections is evaluated on: an id may be removed and
\* added, or added and updated, at once
CacheDiffs ==
    LET brokers == {<<>>} \cup {<<b>> : b \in {SelfBroker, Descriptor(1, 1),
                                               Descriptor(1, NumAddrs)}}
        ids == {<<>>, <<SelfId, 1>>}
    IN {[added |-> a, updated |-> u, removed |-> r] :
          a \in brokers, u \in brokers, r \in ids}

\* join handling on top of the applier and the consensus layer
JoinInputs ==
    {[node_uuid |-> u, node |-> Descriptor(id, rpc)] :
        u \in {Uuid(x) : x \in UUIDs},
        id \in SmallIds \cup {unassigned_node_id}, rpc \in {2}}

NextJoin ==
    \/ \E id \in SmallIds : SubmitCommand(Command("decommission_node", id, None))
    \/ \E id \in SmallIds : RaftRemoveBegin(id)
    \/ RaftRemoveFinish
    \/ ApplyRaftConfiguration
    \/ ApplyDecommissionNode
    \/ ApplyRegisterNodeUuid
    \/ get_node_updates
    \/ Joins(JoinInputs)

SpecJoin == InitLeading /\ [][NextJoin]_vars

\* two handlers of the leader working on requests without id at once
RaceInputs ==
    {[node_uuid |-> Uuid(u), node |-> Descriptor(unassigned_node_id, NumAddrs)] :
        u \in UUIDs}

NextRace ==
    \/ ApplyRaftConfiguration
    \/ ApplyRegisterNodeUuid
    \/ JoinsIn(JoinSlots, RaceInputs)

SpecRace == InitLeading /\ [][NextRace]_vars

\* ============================================================== properties
\* C1: after any sequence of applied register_node_uuid commands, from any
\* initial map, no two distinct uuids are bound to the same node id
C1_RegistryInjective ==
    \A u, v \in DOMAIN id_by_uuid : u /= v => id_by_uuid[u] /= id_by_uuid[v]

\* C2: next_assigned_id is strictly greater than every id placed in the
\* registry (bindings are never removed) and every id in the tombstone set
C2_NextExceedsEveryId ==
    /\ \A u \in DOMAIN id_by_uuid : id_by_uuid[u] < next_assigned_id
    /\ \A id \in LocalTable.removed : id < next_assigned_id

\* C3: handle_join_request never replies success=true with a node id that is
\* in the tombstone set
C3_NoSuccessForTombstoned ==
    (last_op.op = "join" /\ last_op.reply.success)
        => ~get_removed_node_metadata_ref(LocalTable, last_op.reply.id)

\* C4 as stated: once decommission_node(id) has been applied for the id that
\* uuid U is bound to, a join carrying U and that id, handled by the leader
\* with node_id_assignment active, is refused with UNASSIGNED
C4_DecommissionedJoinRefused ==
    (/\ last_op.op = "join"
     /\ last_op.found
     /\ id_by_uuid[last_op.uuid.val] = last_op.id
     /\ last_op.id \in allocator.decommissioned)
        => (~last_op.reply.success /\ last_op.reply.id = unassigned_node_id)

\* C4 as the code has it: once the id that uuid U is bound to is in the
\* tombstone set, a join carrying U and that id, handled by the leader with
\* node_id_assignment active, is answered {success=false, UNASSIGNED}
C4_TombstonedJoinRefused ==
    (/\ last_op.op = "join"
     /\ last_op.found
     /\ id_by_uuid[last_op.uuid.val] = last_op.id
     /\ get_removed_node_metadata_ref(LocalTable, last_op.id))
        => last_op.reply = JoinReply(errc_success, FALSE, unassigned_node_id)

C4_Witness ==
    /\ last_op.op = "join"
    /\ last_op.found
    /\ id_by_uuid[last_op.uuid.val] = last_op.id
    /\ get_removed_node_metadata_ref(LocalTable, last_op.id)
    /\ last_op.path = "removed"

\* C5: last_connection_update_offset never decreases, whatever the order of
\* start() and the applied raft_configuration batches
C5_OffsetNeverDecreases ==
    [][last_connection_update_offset' >= last_connection_update_offset]_vars

\* start() has run and an older configuration batch was applied afterwards
C5_Witness ==
    /\ started
    /\ last_op.op = "apply"
    /\ last_op.batch.type = "raft_configuration"
    /\ last_op.batch.offset < last_connection_update_offset

\* C6: with no operation in flight the connection cache holds exactly the
\* brokers of the consensus configuration other than self, each at its
\* configured rpc address
C6_CacheMatchesConfiguration ==
    (/\ \A s \in JoinSlots : joins[s].pc = "idle"
     /\ log = <<>>
     /\ pending_updates = <<>>
     /\ ~crashed)
        => /\ DOMAIN connection_cache = CfgIds(raft0.cfg) \ {SelfId}
           /\ \A id \in DOMAIN connection_cache :
                 connection_cache[id] = Value(find_broker(raft0.cfg, id)).rpc

\* C7: two instances applying the same committed batches have identical
\* members tables and return identical result codes after every batch
C7_InstancesAgree ==
    /\ replica.mt = LocalTable
    /\ last_op.op = "apply" => replica.result = last_op.result

\* C8: register_node_uuid(uuid, id) succeeds exactly when uuid is unbound and
\* id is bound to no other uuid (the binding is created) or uuid is already
\* bound to id (nothing changes); otherwise it returns
\* join_request_dispatch_error and the registry is unchanged
C8_RegisterWithId ==
    [][(/\ CanApplyCommand("register_node_uuid")
        /\ HasValue(Head(log).cmd.value)
        /\ ApplyRegisterNodeUuid)
       => LET u == Head(log).cmd.key
              id == Value(Head(log).cmd.value)
          IN IF u \notin DOMAIN id_by_uuid /\ id \notin Range(id_by_uuid)
             THEN /\ last_op'.result = errc_success
                  /\ id_by_uuid' = Emplace(id_by_uuid, u, id)
             ELSE IF u \in DOMAIN id_by_uuid /\ id_by_uuid[u] = id
             THEN /\ last_op'.result = errc_success
                  /\ id_by_uuid' = id_by_uuid
             ELSE /\ last_op'.result = errc_join_request_dispatch_error
                  /\ id_by_uuid' = id_by_uuid]_vars

\* C9: re-applying a register_node_uuid command whose arguments already
\* succeeded returns success and changes neither the registry nor
\* next_assigned_id
C9_ReplayIsIdempotent ==
    [][(/\ CanApplyCommand("register_node_uuid")
        /\ <<Head(log).cmd.key, Head(log).cmd.value>> \in succeeded
        /\ ApplyRegisterNodeUuid)
       => /\ last_op'.result = errc_success
          /\ id_by_uuid' = id_by_uuid
          /\ next_assigned_id' = next_assigned_id]_vars

\* a command with an id and a command without one were both replayed
C9_Witness ==
    /\ last_op.op = "apply"
    /\ last_op.replay
    /\ last_op.batch.cmd.kind = "register_node_uuid"
    /\ last_op.result = errc_success
    /\ \E c \in succeeded : c[2] = None
    /\ \E c \in succeeded : c[2] /= None

\* C10 as stated: get_or_assign_node_id never binds or returns INT_MAX, and
\* returns NONE without binding when no id below INT_MAX is free;
\* register_node_uuid(uuid, NONE) then fails with invalid_node_operation;
\* next_assigned_id never passes INT_MAX
C10_NeverReturnsIntMax ==
    /\ next_assigned_id >= 1 /\ next_assigned_id <= INT_MAX
    /\ \A u \in UUIDs :
          LET g == get_or_assign_node_id(id_by_uuid, next_assigned_id,
                                         LocalTable, u)
              r == RegisterNodeUuid(id_by_uuid, next_assigned_id, LocalTable,
                                    Command("register_node_uuid", u, None))
          IN /\ g.id /= Some(INT_MAX)
             /\ g.next >= 1 /\ g.next <= INT_MAX
             /\ g.id = None => /\ g.id_by_uuid = id_by_uuid
                               /\ r.err = errc_invalid_node_operation

\* C10 as the code has it: get_or_assign_node_id never creates a binding to
\* INT_MAX: for an unbound uuid it binds the first id from next_assigned_id on
\* that is neither a member nor tombstoned, if that id is below INT_MAX, and
\* otherwise returns NONE without binding, and register_node_uuid(uuid, NONE)
\* fails with invalid_node_operation; a uuid that is already bound gets its
\* id back, INT_MAX included; next_assigned_id never passes INT_MAX
C10_NeverAssignsIntMax ==
    /\ next_assigned_id >= 1 /\ next_assigned_id <= INT_MAX
    /\ \A u \in UUIDs :
          LET g == get_or_assign_node_id(id_by_uuid, next_assigned_id,
                                         LocalTable, u)
              r == RegisterNodeUuid(id_by_uuid, next_assigned_id, LocalTable,
                                    Command("register_node_uuid", u, None))
              occupied == DOMAIN LocalTable.nodes \cup LocalTable.removed
              cand == {c \in {next_assigned_id}
                              \cup {o + 1 : o \in occupied \ {INT_MAX}} :
                          c >= next_assigned_id /\ c \notin occupied}
              free == {c \in cand : c < INT_MAX /\ \A d \in cand : c <= d}
          IN /\ g.next >= 1 /\ g.next <= INT_MAX
             /\ IF u \in DOMAIN id_by_uuid
                THEN /\ g.id = Some(id_by_uuid[u])
                     /\ g.id_by_uuid = id_by_uuid
                     /\ r.err = errc_success
                ELSE IF free = {}
                THEN /\ g.id = None
                     /\ g.id_by_uuid = id_by_uuid
                     /\ r.err = errc_invalid_node_operation
                ELSE /\ g.id /= Some(INT_MAX)
                     /\ g.id \in {Some(c) : c \in free}
                     /\ g.id_by_uuid = Emplace(id_by_uuid, u, Value(g.id))
                     /\ r.err = errc_success

\* the counter stands at INT_MAX and a registration without an id was refused
C10_Witness ==
    /\ next_assigned_id = INT_MAX
    /\ last_op.op = "apply"
    /\ last_op.batch.type = "node_management_cmd"
    /\ last_op.batch.cmd.kind = "register_node_uuid"
    /\ last_op.batch.cmd.value = None
    /\ last_op.result = errc_invalid_node_operation

\* C11: a join request is answered invalid_request, before any leader check,
\* forwarding or state change, when node_id_assignment is active and the uuid
\* is empty, or the feature is inactive and the request has no id, or the
\* uuid is neither empty nor 16 bytes long, or the request has neither id nor
\* uuid; on leaders and non-leaders alike
C11_InvalidRequestRejected ==
    [][(/\ last_op'.op = "join"
        /\ \/ feature_active /\ last_op'.uuid.len = 0
           \/ ~feature_active /\ last_op'.id < 0
           \/ last_op'.uuid.len /= 0 /\ last_op'.uuid.len /= uuid_length
           \/ last_op'.id < 0 /\ last_op'.uuid.len = 0)
       => /\ last_op'.reply = JoinError(errc_invalid_request)
          /\ UNCHANGED <<registry_vars, members_table, raft_vars,
                         connection_cache, queue_vars, log_vars, joins>>]_vars

\* a non-leader refused a request whose uuid has the wrong size
C11_Witness ==
    /\ last_op.op = "join"
    /\ last_op.uuid = ShortUuid
    /\ last_op.id >= 0
    /\ leader_id /= Some(SelfId)
    /\ last_op.reply = JoinError(errc_invalid_request)

\* C12 as stated: a valid join request reaching a non-leader is sent to the
\* leader and the leader's reply is returned unchanged, or
\* join_request_dispatch_error if the rpc throws
C12_ForwardedReplyReturned ==
    (last_op.op = "join" /\ last_op.path = "forward")
        => last_op.reply =
              IF last_op.remote = "exception"
              THEN JoinError(errc_join_request_dispatch_error)
              ELSE RemoteJoinReply([node_uuid |-> last_op.uuid,
                                    node |-> last_op.node], last_op.remote)

\* C12 as the code has it: a valid join request reaching a non-leader is
\* forwarded when the leader is known and listed in the raft0 configuration,
\* the leader's reply is returned unchanged (join_request_dispatch_error if
\* the rpc throws), and otherwise the answer is no_leader_controller; registry,
\* members table, raft0 configuration, log and queue are untouched and the
\* connection cache changes at most by the client to the leader
C12_ForwardedOrNoLeader ==
    [][(/\ last_op'.op = "join"
        /\ joins' = joins
        /\ leader_id /= Some(SelfId)
        /\ last_op'.path /= "invalid")
       => /\ last_op'.path = "forward"
          /\ UNCHANGED <<registry_vars, members_table, raft_vars, queue_vars,
                         log_vars>>
          /\ IF HasValue(leader_id) /\ contains_broker(raft0.cfg, Value(leader_id))
             THEN /\ last_op'.reply =
                        IF last_op'.remote = "exception"
                        THEN JoinError(errc_join_request_dispatch_error)
                        ELSE RemoteJoinReply([node_uuid |-> last_op'.uuid,
                                              node |-> last_op'.node],
                                             last_op'.remote)
                  /\ \A id \in (DOMAIN connection_cache
                                  \cup DOMAIN connection_cache')
                                 \ {Value(leader_id)} :
                        /\ id \in DOMAIN connection_cache
                        /\ id \in DOMAIN connection_cache'
                        /\ connection_cache'[id] = connection_cache[id]
             ELSE /\ last_op'.reply = JoinError(errc_no_leader_controller)
                  /\ connection_cache' = connection_cache]_vars

\* the leader refused a forwarded request and the refusal was passed on
C12_Witness ==
    /\ last_op.op = "join"
    /\ last_op.path = "forward"
    /\ last_op.remote = "refused"
    /\ last_op.reply = JoinReply(errc_success, FALSE, unassigned_node_id)

\* C13 as stated: on the leader with node_id_assignment active a join with a
\* uuid and no id replies success=true with the id bound to the uuid
C13_UuidOnlyJoinSucceeds ==
    (last_op.op = "join" /\ last_op.id < 0)
        => /\ last_op.uuid.val \in DOMAIN id_by_uuid
           /\ last_op.reply = JoinReply(errc_success, TRUE,
                                        id_by_uuid[last_op.uuid.val])

\* C13 as the code has it: such a join never changes the raft0 group or the
\* connection cache; a bound uuid is answered at once with success=true and
\* its id, replicating nothing; an unbound uuid has
\* register_node_uuid(uuid, NONE) replicated and is answered success=true
\* with the assigned id once the command succeeded, and with the error when
\* the registration failed or timed out
C13_UuidOnlyJoin ==
    [][/\ \A s \in JoinSlots :
             (/\ joins[s].pc = "idle"
              /\ joins'[s].pc = "wait"
              /\ joins'[s].req.node.id < 0)
             => /\ joins'[s].req.node_uuid.val \notin DOMAIN id_by_uuid
                /\ log' = Append(log,
                             CommandBatch(next_offset,
                                Command("register_node_uuid",
                                        joins'[s].req.node_uuid.val, None)))
                /\ UNCHANGED <<raft_vars, connection_cache, registry_vars>>
       /\ (last_op'.op = "join" /\ last_op'.id < 0)
             => /\ UNCHANGED <<raft_vars, connection_cache, registry_vars,
                               log_vars>>
                /\ joins' = joins <=> last_op'.found
                /\ IF last_op'.found \/ last_op'.reply.success
                   THEN /\ last_op'.uuid.val \in DOMAIN id_by_uuid
                        /\ last_op'.reply =
                              JoinReply(errc_success, TRUE,
                                        id_by_uuid[last_op'.uuid.val])
                   ELSE /\ last_op'.reply.err /= errc_success
                        /\ last_op'.reply.id = unassigned_node_id]_vars

\* the request was repeated for a uuid that is bound by now
C13_Witness ==
    /\ last_op.op = "join"
    /\ last_op.id < 0
    /\ last_op.found
    /\ last_op.reply = JoinReply(errc_success, TRUE,
                                 id_by_uuid[last_op.uuid.val])

\* C14: on the leader with node_id_assignment active, a join whose uuid is
\* bound to an id other than the requested one is answered
\* {success=false, UNASSIGNED} and changes no state and replicates nothing
C14_IdMismatchRefused ==
    [][(/\ last_op'.op = "join"
        /\ last_op'.found
        /\ last_op'.id >= 0
        /\ id_by_uuid[last_op'.uuid.val] /= last_op'.id)
       => /\ last_op'.reply = JoinReply(errc_success, FALSE, unassigned_node_id)
          /\ UNCHANGED <<registry_vars, members_table, raft_vars,
                         connection_cache, queue_vars, log_vars, joins>>]_vars

C14_Witness ==
    /\ last_op.op = "join"
    /\ last_op.found
    /\ last_op.id >= 0
    /\ id_by_uuid[last_op.uuid.val] /= last_op.id
    /\ last_op.path = "id_mismatch"

\* C15: when the requesting broker id is in the raft0 configuration and the
\* registry checks passed, the leader handles the join as a configuration
\* update targeted at itself and adds no group member; the reply is
\* {true, id} when the update replied success, {false, UNASSIGNED} when it
\* replied failure, and the update's error when it failed
C15_MemberJoinIsUpdate ==
    [][(/\ last_op'.op = "join"
        /\ last_op'.id >= 0
        /\ contains_broker(raft0.cfg, last_op'.id)
        /\ IF last_op'.found
           THEN /\ id_by_uuid[last_op'.uuid.val] = last_op'.id
                /\ ~get_removed_node_metadata_ref(LocalTable, last_op'.id)
           ELSE last_op'.path /= "register_failed")
       => /\ CfgIds(raft0'.cfg) = CfgIds(raft0.cfg)
          /\ Len(raft0'.cfg.brokers) = Len(raft0.cfg.brokers)
          /\ \E raft_ok \in BOOLEAN :
                LET u == handle_configuration_update_request(
                            last_op'.node, SelfId, connection_cache, raft_ok,
                            last_op'.remote)
                IN /\ last_op'.reply =
                         IF u.reply.err /= errc_success
                         THEN JoinError(u.reply.err)
                         ELSE IF u.reply.success
                         THEN JoinReply(errc_success, TRUE, last_op'.id)
                         ELSE JoinReply(errc_success, FALSE, unassigned_node_id)
                   /\ connection_cache' = u.cache
                   /\ IF HasValue(u.new_cfg)
                      THEN raft0'.cfg = Value(u.new_cfg)
                      ELSE raft0' = raft0]_vars

\* a member joined again and its configuration update succeeded
C15_Witness ==
    /\ last_op.op = "join"
    /\ last_op.path = "update"
    /\ last_op.reply = JoinReply(errc_success, TRUE, last_op.id)

\* C16 as stated: with node_id_assignment inactive, a join request from a
\* broker id that is not in the raft0 configuration, whose rpc address is
\* that of a broker in the raft0 configuration, is answered
\* {success=false, UNASSIGNED} and changes neither raft0 nor the cache
C16_AddressConflictRefused ==
    [][(/\ last_op'.op = "join"
        /\ ~feature_active
        /\ last_op'.id >= 0
        /\ ~contains_broker(raft0.cfg, last_op'.id)
        /\ contains_address(raft0.cfg, last_op'.node.rpc))
       => /\ last_op'.reply = JoinReply(errc_success, FALSE, unassigned_node_id)
          /\ raft0' = raft0
          /\ connection_cache' = connection_cache]_vars

\* C16, amended: the same, for a request handled by the controller leader
\* whose node uuid is empty or of the expected length; a request of any
\* other uuid size is invalid_request, and a broker that is not the leader
\* forwards the request or answers no_leader_controller
C16_AddressConflictOnLeader ==
    [][(/\ last_op'.op = "join"
        /\ ~feature_active
        /\ leader_id = Some(SelfId)
        /\ last_op'.uuid.len \in {0, uuid_length}
        /\ last_op'.id >= 0
        /\ ~contains_broker(raft0.cfg, last_op'.id)
        /\ contains_address(raft0.cfg, last_op'.node.rpc))
       => /\ last_op'.reply = JoinReply(errc_success, FALSE, unassigned_node_id)
          /\ raft0' = raft0
          /\ connection_cache' = connection_cache]_vars

\* a join was refused for the address of a broker of the configuration
C16_Witness ==
    /\ last_op.op = "join"
    /\ last_op.path = "address_conflict"
    /\ ~feature_active
    /\ ~contains_broker(raft0.cfg, last_op.id)
    /\ last_op.id \notin DOMAIN connection_cache
    /\ last_op.reply = JoinReply(errc_success, FALSE, unassigned_node_id)

\* C17: on the admit path (all earlier checks passed, broker id not in the
\* raft0 configuration) the broker is added to the raft0 group and the reply
\* is {true, requested id} exactly when add_group_members returned no error,
\* otherwise the reply is its error; when the requested id is not self the
\* connection to the requester is installed before add_group_members, so it
\* is there whatever add_group_members returned
C17_AdmitAddsMember ==
    [][(/\ last_op'.op = "join"
        /\ last_op'.id >= 0
        /\ ~contains_broker(raft0.cfg, last_op'.id)
        /\ feature_active \/ ~contains_address(raft0.cfg, last_op'.node.rpc)
        /\ IF last_op'.found
           THEN /\ id_by_uuid[last_op'.uuid.val] = last_op'.id
                /\ ~get_removed_node_metadata_ref(LocalTable, last_op'.id)
           ELSE last_op'.path /= "register_failed")
       => /\ \/ /\ raft0'.cfg = CfgAdd(raft0.cfg, last_op'.node)
                /\ last_op'.reply = JoinReply(errc_success, TRUE, last_op'.id)
             \/ /\ raft0' = raft0
                /\ last_op'.reply = JoinError(raft_errc_error)
          /\ connection_cache' =
                IF last_op'.id /= SelfId
                THEN update_broker_client(connection_cache, last_op'.id,
                                          last_op'.node.rpc)
                ELSE connection_cache]_vars

\* add_group_members failed for a broker the leader had connected to
C17_Witness ==
    /\ last_op.op = "join"
    /\ last_op.path = "add"
    /\ last_op.reply = JoinError(raft_errc_error)
    /\ last_op.id /= SelfId
    /\ ~contains_broker(raft0.cfg, last_op.id)
    /\ last_op.id \in DOMAIN connection_cache

\* C18: applying decommission_node(id) at offset o calls
\* allocator.decommission_node(id) and enqueues exactly one event
\* {id, decommissioned, o} if and only if the fan-out to the members table of
\* every shard returned success; on an error the allocator is not called,
\* nothing is enqueued and the error is the result of the command
C18_DecommissionApplied ==
    [][(/\ log /= <<>>
        /\ log' = Tail(log)
        /\ last_op'.op = "apply"
        /\ Head(log).type = "node_management_cmd"
        /\ Head(log).cmd.kind = "decommission_node")
       => LET b == Head(log)
              fan == [s \in Shards |-> MtApply(members_table[s], b.offset, b.cmd)]
              ok == \A s \in Shards : fan[s].err = errc_success
              event == NodeUpdate(b.cmd.key, "decommissioned", b.offset)
          IN /\ last_op'.batch = b
             /\ members_table' = [s \in Shards |-> fan[s].mt]
             /\ IF ok
                THEN /\ last_op'.result = errc_success
                     /\ allocator' = [allocator EXCEPT
                                        !.decommissioned = @ \cup {b.cmd.key}]
                     /\ update_queue' \o pending_updates' =
                           Append(update_queue \o pending_updates, event)
                ELSE /\ last_op'.result = fan[HomeShard].err
                     /\ last_op'.result /= errc_success
                     /\ allocator' = allocator
                     /\ UNCHANGED queue_vars]_vars

\* a decommission command succeeded: the allocator knows, the event is queued
C18_Witness ==
    /\ last_op.op = "apply"
    /\ last_op.batch.type = "node_management_cmd"
    /\ last_op.batch.cmd.kind = "decommission_node"
    /\ last_op.result = errc_success
    /\ last_op.batch.cmd.key \in allocator.decommissioned
    /\ \E i \in DOMAIN (update_queue \o pending_updates) :
          (update_queue \o pending_updates)[i] =
             NodeUpdate(last_op.batch.cmd.key, "decommissioned",
                        last_op.batch.offset)

\* C19: applying recommission_node(id) while the raft0 configuration is
\* joint and id is among the learners of its old configuration gives
\* invalid_node_operation and applies nothing: no members table changes, the
\* allocator is not called, no event is enqueued; otherwise the command is
\* fanned out to the members tables and, on success,
\* allocator.recommission_node(id) is called and {id, recommissioned, offset}
\* is enqueued
C19_RecommissionApplied ==
    [][(/\ log /= <<>>
        /\ log' = Tail(log)
        /\ last_op'.op = "apply"
        /\ Head(log).type = "node_management_cmd"
        /\ Head(log).cmd.kind = "recommission_node")
       => LET b == Head(log)
              id == b.cmd.key
              fan == [s \in Shards |-> MtApply(members_table[s], b.offset, b.cmd)]
              ok == \A s \in Shards : fan[s].err = errc_success
              event == NodeUpdate(id, "recommissioned", b.offset)
          IN IF raft0.cfg.state = "joint" /\ id \in raft0.cfg.learners
             THEN /\ last_op'.result = errc_invalid_node_operation
                  /\ members_table' = members_table
                  /\ allocator' = allocator
                  /\ UNCHANGED queue_vars
             ELSE /\ members_table' = [s \in Shards |-> fan[s].mt]
                  /\ last_op'.result = fan[HomeShard].err
                  /\ ok => /\ allocator' = [allocator EXCEPT
                                              !.decommissioned = @ \ {id}]
                           /\ update_queue' \o pending_updates' =
                                 Append(update_queue \o pending_updates, event)]_vars

\* a recommission of a decommissioning node was refused because the node is
\* a demoted voter of a joint raft0 configuration
C19_Witness ==
    /\ last_op.op = "apply"
    /\ last_op.batch.type = "node_management_cmd"
    /\ last_op.batch.cmd.kind = "recommission_node"
    /\ last_op.result = errc_invalid_node_operation
    /\ raft0.cfg.state = "joint"
    /\ last_op.batch.cmd.key \in raft0.cfg.learners
    /\ last_op.batch.cmd.key \in DOMAIN LocalTable.nodes
    /\ LocalTable.nodes[last_op.batch.cmd.key].state = "decommissioning"

\* C20: applying finish_reallocations(id) at offset o, for a known, an
\* unknown or a tombstoned id, leaves the members tables, the uuid registry,
\* next_assigned_id, the connection cache and last_connection_update_offset
\* unchanged, enqueues exactly one event {id, reallocation_finished, o} and
\* returns success
C20_FinishReallocationsApplied ==
    [][(/\ log /= <<>>
        /\ log' = Tail(log)
        /\ last_op'.op = "apply"
        /\ Head(log).type = "node_management_cmd"
        /\ Head(log).cmd.kind = "finish_reallocations")
       => /\ UNCHANGED <<members_table, id_by_uuid, next_assigned_id,
                         connection_cache, last_connection_update_offset>>
          /\ update_queue' \o pending_updates' =
                Append(update_queue \o pending_updates,
                       NodeUpdate(Head(log).cmd.key, "reallocation_finished",
                                  Head(log).offset))
          /\ last_op'.result = errc_success]_vars

\* finish_reallocations was applied for an id no members table holds
C20_Witness ==
    /\ last_op.op = "apply"
    /\ last_op.batch.type = "node_management_cmd"
    /\ last_op.batch.cmd.kind = "finish_reallocations"
    /\ last_op.result = errc_success
    /\ last_op.batch.cmd.key \notin DOMAIN LocalTable.nodes
    /\ \E i \in DOMAIN (update_queue \o pending_updates) :
          (update_queue \o pending_updates)[i] =
             NodeUpdate(last_op.batch.cmd.key, "reallocation_finished",
                        last_op.batch.offset)

\* C21: applying maintenance_mode(id, enabled) invokes the drain manager on
\* every shard, drain() when enabled and restore() when not, if and only if
\* the fan-out to the members tables returned success and id is the local
\* node; otherwise no drain manager is invoked; no event is ever enqueued
C21_MaintenanceModeApplied ==
    [][(/\ log /= <<>>
        /\ log' = Tail(log)
        /\ last_op'.op = "apply"
        /\ Head(log).type = "node_management_cmd"
        /\ Head(log).cmd.kind = "maintenance_mode")
       => LET b == Head(log)
              fan == [s \in Shards |-> MtApply(members_table[s], b.offset, b.cmd)]
              ok == \A s \in Shards : fan[s].err = errc_success
          IN /\ IF ok /\ b.cmd.key = SelfId
                THEN \A s \in Shards :
                        /\ draining'[s].invoked = b.offset
                        /\ draining'[s].draining = b.cmd.value
                ELSE draining' = draining
             /\ last_op'.result = fan[HomeShard].err
             /\ UNCHANGED queue_vars]_vars

\* the local node was put in maintenance mode: every shard drains
C21_Witness ==
    /\ last_op.op = "apply"
    /\ last_op.batch.type = "node_management_cmd"
    /\ last_op.batch.cmd.kind = "maintenance_mode"
    /\ last_op.batch.cmd.key = SelfId
    /\ last_op.batch.cmd.value
    /\ last_op.result = errc_success
    /\ \A s \in Shards : draining[s] = drain(DrainIdle, last_op.batch.offset)

\* C22: dispatch_configuration_update returns normally only after an
\* attempt whose reply has success=true; after an attempt that fails or
\* replies success=false it sleeps and tries again, any number of times;
\* only an abort of the sleep ends it otherwise
C22_UpdateLoopRetriesUntilSuccess ==
    [][updater' /= updater
       => CASE updater.pc = "idle" -> updater'.pc = "attempt"
            [] updater.pc = "attempt" ->
                 /\ last_op'.op = "dispatch_configuration_update"
                 /\ IF /\ last_op'.reply.err = errc_success
                       /\ last_op'.reply.success
                    THEN updater'.pc = "done"
                    ELSE updater'.pc = (IF as_fired THEN "aborted" ELSE "sleep")
            [] updater.pc = "sleep" ->
                 \/ updater'.pc = "attempt" /\ ~as_fired'
                 \/ updater'.pc = "aborted" /\ as_fired' /\ ~as_fired
            [] OTHER -> FALSE]_vars

\* the loop is about to try again after MaxAttempts attempts were refused
C22_Witness ==
    /\ updater.pc = "attempt"
    /\ updater.attempts = MaxAttempts
    /\ ~as_fired

\* C23: handle_configuration_update_request rejects, leaving the connection
\* cache and the raft0 configuration unchanged, with success=false a request
\* whose target is not this node, and with invalid_configuration_update a
\* broker record that has fewer cores than the members table entry of the
\* same id, or the rpc address of an entry of another id, or a kafka
\* advertised endpoint of an entry of another id; any other request passes
\* validation
C23_UpdateValidation ==
    [][last_op'.op = "configuration_update"
       => LET node == last_op'.node
              known == LocalTable.nodes
              fewer_cores == /\ node.id \in DOMAIN known
                             /\ known[node.id].broker.cores > node.cores
              same_rpc == \E id \in DOMAIN known \ {node.id} :
                             known[id].broker.rpc = node.rpc
              same_kafka == \E id \in DOMAIN known \ {node.id} :
                               Range(known[id].broker.kafka)
                                  \cap Range(node.kafka) /= {}
          IN IF last_op'.target /= SelfId
             THEN /\ last_op'.reply = UpdateReply(errc_success, FALSE)
                  /\ UNCHANGED <<connection_cache, raft0>>
             ELSE IF fewer_cores \/ same_rpc \/ same_kafka
             THEN /\ last_op'.reply =
                        UpdateReply(errc_invalid_configuration_update, FALSE)
                  /\ UNCHANGED <<connection_cache, raft0>>
             ELSE /\ leader_id = None
                     => last_op'.reply.err = errc_no_leader_controller
                  /\ leader_id = Some(SelfId)
                     => last_op'.reply \in
                           {UpdateReply(errc_success, TRUE),
                            UpdateReply(raft_errc_error, FALSE)}
                  /\ node.id /= SelfId /\ leader_id \in {None, Some(SelfId)}
                     => /\ node.id \in DOMAIN connection_cache'
                        /\ connection_cache'[node.id] = node.rpc]_vars

\* an update was rejected only for a kafka endpoint of another broker
C23_Witness ==
    /\ last_op.op = "configuration_update"
    /\ last_op.target = SelfId
    /\ last_op.reply = UpdateReply(errc_invalid_configuration_update, FALSE)
    /\ last_op.node.id \in DOMAIN LocalTable.nodes
    /\ LocalTable.nodes[last_op.node.id].broker.cores <= last_op.node.cores
    /\ \A id \in DOMAIN LocalTable.nodes \ {last_op.node.id} :
          LocalTable.nodes[id].broker.rpc /= last_op.node.rpc
    /\ \E id \in DOMAIN LocalTable.nodes \ {last_op.node.id} :
          Range(LocalTable.nodes[id].broker.kafka)
             \cap Range(last_op.node.kafka) /= {}

\* C24 as stated: a request that passes validation reconciles the connection
\* to the updated broker (unless it is this node), then on the leader calls
\* update_group_member and replies success=true exactly when that returned
\* no error (its error otherwise), and when another node is the leader
\* forwards the request to it and returns the leader's reply
C24_ValidUpdateHandled ==
    [][(/\ last_op'.op = "configuration_update"
        /\ last_op'.target = SelfId
        /\ ~check_result_configuration(LocalTable.nodes, last_op'.node)
        /\ HasValue(leader_id))
       => LET node == last_op'.node
              reconciled == IF node.id /= SelfId
                            THEN update_broker_client(connection_cache,
                                                      node.id, node.rpc)
                            ELSE connection_cache
          IN IF leader_id = Some(SelfId)
             THEN /\ connection_cache' = reconciled
                  /\ \/ /\ raft0'.cfg = CfgUpdate(raft0.cfg, node)
                        /\ last_op'.reply = UpdateReply(errc_success, TRUE)
                     \/ /\ raft0' = raft0
                        /\ last_op'.reply = UpdateReply(raft_errc_error, FALSE)
             ELSE /\ raft0' = raft0
                  /\ last_op'.remote /= "exception"
                     => last_op'.reply = RemoteUpdateReply(last_op'.remote)]_vars

\* C24, amended: the same, and without a known leader, or with a leader that
\* the local members table does not hold, the reply is no_leader_controller
\* after the connection was reconciled; a forward that throws is answered
\* join_request_dispatch_error
C24_ValidUpdateHandledOrNoLeader ==
    [][(/\ last_op'.op = "configuration_update"
        /\ last_op'.target = SelfId
        /\ ~check_result_configuration(LocalTable.nodes, last_op'.node))
       => LET node == last_op'.node
              reconciled == IF node.id /= SelfId
                            THEN update_broker_client(connection_cache,
                                                      node.id, node.rpc)
                            ELSE connection_cache
          IN IF leader_id = Some(SelfId)
             THEN /\ connection_cache' = reconciled
                  /\ \/ /\ raft0'.cfg = CfgUpdate(raft0.cfg, node)
                        /\ last_op'.reply = UpdateReply(errc_success, TRUE)
                     \/ /\ raft0' = raft0
                        /\ last_op'.reply = UpdateReply(raft_errc_error, FALSE)
             ELSE IF \/ ~HasValue(leader_id)
                     \/ Value(leader_id) \notin DOMAIN LocalTable.nodes
             THEN /\ connection_cache' = reconciled
                  /\ raft0' = raft0
                  /\ last_op'.reply =
                        UpdateReply(errc_no_leader_controller, FALSE)
             ELSE /\ connection_cache' =
                        with_client(reconciled, Value(leader_id),
                           LocalTable.nodes[Value(leader_id)].broker.rpc)
                  /\ raft0' = raft0
                  /\ last_op'.reply =
                        IF last_op'.remote = "exception"
                        THEN UpdateReply(errc_join_request_dispatch_error, FALSE)
                        ELSE RemoteUpdateReply(last_op'.remote)]_vars

\* the leader accepted a changed record of another broker: raft0 holds
\* the new record and the connection to the broker follows it
C24_Witness ==
    /\ last_op.op = "configuration_update"
    /\ last_op.target = SelfId
    /\ leader_id = Some(SelfId)
    /\ last_op.reply = UpdateReply(errc_success, TRUE)
    /\ last_op.node.id /= SelfId
    /\ last_op.node /= Descriptor(last_op.node.id, NumAddrs)
    /\ find_broker(raft0.cfg, last_op.node.id) = Some(last_op.node)
    /\ last_op.node.id \in DOMAIN connection_cache
    /\ connection_cache[last_op.node.id] = last_op.node.rpc

\* C25: get_node_updates hands over the events of the update queue in the
\* order they were enqueued, each one once, never an empty batch (on an empty
\* queue it waits), and all the queued events at once when it is called on a
\* queue that is not empty. Checked on every step taken while the queue is
\* not aborted: the queue only grows at its end, or loses the prefix that
\* the call returns.
C25_QueueDeliveredInOrder ==
    [][~as_fired'
       => /\ update_queue' /= update_queue
             => IF Len(update_queue') > Len(update_queue)
                THEN SubSeq(update_queue', 1, Len(update_queue)) = update_queue
                ELSE /\ last_op'.op = "get_node_updates"
                     /\ update_queue = last_op'.updates \o update_queue'
                     /\ consumer = "idle" => update_queue' = <<>>
          /\ (last_op'.op = "get_node_updates" /\ last_op' /= last_op)
             => /\ last_op'.updates /= <<>>
                /\ last_op'.error = errc_success
                /\ update_queue = last_op'.updates \o update_queue'
          /\ (consumer = "idle" /\ consumer' = "waiting")
             => update_queue = <<>> /\ UNCHANGED update_queue]_vars

\* two events of different offsets were handed over together, oldest first
C25_Witness ==
    /\ last_op.op = "get_node_updates"
    /\ Len(last_op.updates) = 2
    /\ last_op.updates[1].offset < last_op.updates[2].offset
    /\ update_queue = <<>>

\* C26: once the abort source has fired, also when it had fired before the
\* members manager was constructed, nobody stays blocked on the update queue:
\* the push_eventually of apply_update and the get_node_updates that were
\* waiting fail with abort_requested_exception, and so does every later
\* push_eventually and every later get_node_updates on the empty queue
C26_AbortFailsBothEnds ==
    /\ [](as_fired => /\ queue_ex
                      /\ pending_updates = <<>>
                      /\ consumer = "idle")
    /\ [][/\ (~as_fired /\ as_fired')
             => /\ last_op'.op = "abort"
                /\ last_op'.producer_failed = (pending_updates /= <<>>)
                /\ last_op'.consumer_failed = (consumer = "waiting")
          /\ (as_fired /\ last_op' /= last_op
                /\ last_op'.op = "get_node_updates")
             => /\ last_op'.error = abort_requested_exception
                /\ last_op'.updates = <<>>
          /\ (as_fired /\ log /= <<>> /\ log' = Tail(log))
             => LET b == Head(log)
                    pushes ==
                       IF b.type = "node_management_cmd"
                       THEN b.cmd.kind = "finish_reallocations"
                       ELSE /\ b.offset > last_connection_update_offset
                            /\ calculate_changed_nodes(LocalTable, b.cfg).added
                                  /= <<>>
                IN pushes => /\ last_op'.op = "apply"
                             /\ last_op'.result = abort_requested_exception
                             /\ UNCHANGED queue_vars]_vars

\* the abort source fired while apply_update was blocked on the full queue
C26_Witness ==
    /\ as_fired
    /\ last_op.op = "abort"
    /\ last_op.producer_failed
    /\ pending_updates = <<>>

\* C27: once the abort source has fired the join loop of join_raft0 ends:
\* the aborted retry sleep is swallowed and no further join attempt is made,
\* also when no join succeeded, the node is not in the raft0 configuration
\* and the gate is open
C27_AbortEndsJoinLoop ==
    [][(/\ as_fired'
        /\ joiner' /= joiner
        /\ \/ joiner.pc = "sleep"
           \/ joiner.pc = "attempt" /\ joiner.seed > Len(seed_servers))
       => joiner'.pc = "done"]_vars

\* C28 as stated: within a pass the seeds are tried in the configured order;
\* the pass ends at the first seed that replies success=true; an error, an
\* exception or success=false moves on to the next seed; when every seed
\* failed the pass yields seed_servers_exhausted and the loop sleeps and
\* starts again from the first seed; a seed at the node's own rpc address is
\* served in-process by handle_join_request
C28_SeedsTriedInOrder ==
    [][/\ (last_op'.op = "join_attempt" /\ joiner' /= joiner)
          => /\ joiner.pc = "attempt"
             /\ last_op'.seed = joiner.seed
             /\ last_op'.local = (seed_servers[joiner.seed] = SelfBroker.rpc)
             /\ IF last_op'.reply.err = errc_success /\ last_op'.reply.success
                THEN joiner'.pc = "done"
                ELSE joiner'.pc = "attempt" /\ joiner'.seed = joiner.seed + 1
             /\ IF last_op'.local
                THEN \E raft_ok \in BOOLEAN :
                        LET o == JoinOutcome(SelfJoinRequest, connection_cache,
                                             raft_ok, last_op'.remote)
                        IN /\ last_op'.reply = o.reply
                           /\ connection_cache' = o.cache
                ELSE UNCHANGED <<connection_cache, raft0>>
       /\ (joiner.pc \in {"idle", "sleep"} /\ joiner'.pc = "attempt")
          => joiner'.seed = 1
       /\ (joiner.pc = "attempt" /\ joiner.seed > Len(seed_servers)
             /\ joiner' /= joiner)
          => /\ last_op' = [op |-> "join_pass",
                            result |-> errc_seed_servers_exhausted]
             /\ joiner'.pc = "sleep"
             /\ joiner'.seed = 1]_vars

\* C28, amended: the same, except that after a pass in which every seed
\* failed the loop ends when the gate is closed or the node is by then in
\* the raft0 configuration, and goes on without sleeping when the abort
\* source has fired
C28_SeedsTriedInOrderUntilMember ==
    [][/\ (last_op'.op = "join_attempt" /\ joiner' /= joiner)
          => /\ joiner.pc = "attempt"
             /\ last_op'.seed = joiner.seed
             /\ last_op'.local = (seed_servers[joiner.seed] = SelfBroker.rpc)
             /\ IF last_op'.reply.err = errc_success /\ last_op'.reply.success
                THEN joiner'.pc = "done"
                ELSE joiner'.pc = "attempt" /\ joiner'.seed = joiner.seed + 1
             /\ IF last_op'.local
                THEN \E raft_ok \in BOOLEAN :
                        LET o == JoinOutcome(SelfJoinRequest, connection_cache,
                                             raft_ok, last_op'.remote)
                        IN /\ last_op'.reply = o.reply
                           /\ connection_cache' = o.cache
                ELSE UNCHANGED <<connection_cache, raft0>>
       /\ (joiner.pc \in {"idle", "sleep"} /\ joiner'.pc = "attempt")
          => joiner'.seed = 1
       /\ (joiner.pc = "attempt" /\ joiner.seed > Len(seed_servers)
             /\ joiner' /= joiner)
          => /\ last_op' = [op |-> "join_pass",
                            result |-> errc_seed_servers_exhausted]
             /\ IF gate_closed \/ is_already_member
                THEN joiner'.pc = "done"
                ELSE /\ joiner'.pc = (IF as_fired THEN "attempt" ELSE "sleep")
                     /\ joiner'.seed = 1]_vars

\* the remote seed refused, and the node's own address, tried next, was
\* served in-process
C28_Witness ==
    /\ last_op.op = "join_attempt"
    /\ last_op.seed = 2
    /\ last_op.local
    /\ joiner.attempts >= 1

\* C29: every applied raft_configuration batch, whatever its offset is
\* relative to last_connection_update_offset, enqueues exactly one added
\* event, carrying the batch's offset, for each broker of its configuration
\* that the members table did not contain before the batch
C29_AddedEventsForEveryNewBroker ==
    [][(/\ CanApply("raft_configuration")
        /\ log' = Tail(log)
        /\ last_op'.op = "apply"
        /\ ~queue_ex)
       => LET b == Head(log)
              diff == calculate_changed_nodes(LocalTable, b.cfg)
          IN update_queue' \o pending_updates' =
                update_queue \o AddedEvents(diff.added, b.offset)]_vars

\* C30: a raft_configuration batch at offset o reconciles the connection
\* cache with the diff and moves last_connection_update_offset to o exactly
\* when o is above it, and leaves both alone otherwise; either way the
\* allocator's node list and every shard's members table hold the brokers of
\* the configuration
C30_CfgUpdateEffects ==
    [][(/\ CanApply("raft_configuration")
        /\ log' = Tail(log)
        /\ last_op'.op = "apply")
       => LET b == Head(log)
              diff == calculate_changed_nodes(LocalTable, b.cfg)
          IN /\ IF b.offset > last_connection_update_offset
                THEN /\ last_connection_update_offset' = b.offset
                     /\ connection_cache' =
                           update_connections(connection_cache, diff)
                ELSE UNCHANGED <<connection_cache,
                                 last_connection_update_offset>>
             /\ allocator'.nodes = CfgIds(b.cfg)
             /\ \A s \in Shards :
                   /\ DOMAIN members_table'[s].nodes = CfgIds(b.cfg)
                   /\ \A i \in 1..Len(b.cfg.brokers) :
                         members_table'[s].nodes[b.cfg.brokers[i].id].broker
                            = b.cfg.brokers[i]]_vars

\* a batch below last_connection_update_offset was applied and brought a
\* broker other than this node into the members tables
C30_Witness ==
    /\ last_op.op = "apply"
    /\ last_op.batch.type = "raft_configuration"
    /\ last_op.batch.offset < last_connection_update_offset
    /\ \E id \in DOMAIN LocalTable.nodes :
          /\ id /= SelfId
          /\ LocalTable.nodes[id].update_offset = last_op.batch.offset

\* C31: an event enters the update queue only after the change it reports
\* is in the members table of every shard: an added event when every shard
\* holds the broker, a decommissioned event when every shard has the node
\* decommissioning, a recommissioned event when every shard has it active
C31_EventsAfterStateChange ==
    [][(/\ Len(update_queue') > Len(update_queue)
        /\ SubSeq(update_queue', 1, Len(update_queue)) = update_queue)
       => \A i \in (Len(update_queue) + 1)..Len(update_queue') :
             LET e == update_queue'[i]
             IN \A s \in Shards :
                   CASE e.type = "added" -> contains(members_table'[s], e.id)
                     [] e.type = "decommissioned" ->
                          /\ contains(members_table'[s], e.id)
                          /\ members_table'[s].nodes[e.id].state
                                = "decommissioning"
                     [] e.type = "recommissioned" ->
                          /\ contains(members_table'[s], e.id)
                          /\ members_table'[s].nodes[e.id].state = "active"
                     [] OTHER -> TRUE]_vars

\* a recommissioned event of a node other than this one is in the queue
\* behind an earlier event, and every shard shows the node active
C31_Witness ==
    /\ Len(update_queue) >= 2
    /\ update_queue[Len(update_queue)].type = "recommissioned"
    /\ update_queue[Len(update_queue)].id /= SelfId
    /\ \A s \in Shards :
          members_table[s].nodes[update_queue[Len(update_queue)].id].state
             = "active"

\* C32: batches being applied one at a time in offset order, the offsets of
\* the events waiting in the update queue (and of those an applier still has
\* to push behind them) never decrease from one event to the next, whatever
\* their kinds and node ids; the same holds for a batch of events returned
\* by get_node_updates
C32_QueueOffsetsMonotonic ==
    LET q == update_queue \o pending_updates
    IN /\ \A i \in 1..Len(q) : \A j \in i..Len(q) : q[i].offset <= q[j].offset
       /\ last_op.op = "get_node_updates"
          => \A i \in 1..Len(last_op.updates) :
                \A j \in i..Len(last_op.updates) :
                   last_op.updates[i].offset <= last_op.updates[j].offset

\* get_node_updates returned two events of different kinds, for different
\* nodes, from different batches
C32_Witness ==
    /\ last_op.op = "get_node_updates"
    /\ Len(last_op.updates) = 2
    /\ last_op.updates[1].type /= last_op.updates[2].type
    /\ last_op.updates[1].id /= last_op.updates[2].id
    /\ last_op.updates[1].offset < last_op.updates[2].offset

\* C33: every shard's members table has received the same batches, so the
\* tables of any two shards are equal whenever the applier is between
\* batches, the result codes gathered from the shards for a command are all
\* equal, and the state inconsistency assertion is never reached
C33_ShardsAgree ==
    /\ ~crashed
    /\ \A s \in Shards : members_table[s] = LocalTable
    /\ (log /= <<>> /\ Head(log).type = "node_management_cmd"
          /\ Head(log).cmd.kind \in {"decommission_node", "recommission_node",
                                     "maintenance_mode"})
       => dispatch_updates_to_cores(members_table, Head(log).offset,
                                    Head(log).cmd).state_consistent

\* a command was refused by every shard of a node whose tables hold more
\* than one broker
C33_Witness ==
    /\ last_op.op = "apply"
    /\ last_op.batch.type = "node_management_cmd"
    /\ last_op.batch.cmd.kind = "recommission_node"
    /\ last_op.result = errc_invalid_node_operation
    /\ \A s \in Shards : Cardinality(DOMAIN members_table[s].nodes) >= 2

\* C34: when a register_node_uuid command without an id binds a uuid that
\* was unbound, the id bound is neither a member nor a removed node, every
\* id from the previous next_assigned_id up to it is one or the other, and
\* next_assigned_id becomes the id plus one
C34_AssignedIdIsSmallestFree ==
    [][(/\ CanApplyCommand("register_node_uuid")
        /\ log' = Tail(log)
        /\ Head(log).cmd.value = None
        /\ Head(log).cmd.key \notin DOMAIN id_by_uuid
        /\ Head(log).cmd.key \in DOMAIN id_by_uuid')
       => LET id == id_by_uuid'[Head(log).cmd.key]
          IN /\ ~contains(LocalTable, id)
             /\ ~get_removed_node_metadata_ref(LocalTable, id)
             /\ id >= next_assigned_id
             /\ \A k \in next_assigned_id..(id - 1) :
                   \/ contains(LocalTable, k)
                   \/ get_removed_node_metadata_ref(LocalTable, k)
             /\ next_assigned_id' = id + 1
             /\ last_op'.result = errc_success]_vars

\* an id was assigned past a member and a removed node
C34_Witness ==
    /\ last_op.op = "apply"
    /\ last_op.batch.type = "node_management_cmd"
    /\ last_op.batch.cmd.kind = "register_node_uuid"
    /\ last_op.batch.cmd.value = None
    /\ last_op.result = errc_success
    /\ ~last_op.replay
    /\ LocalTable.removed /= {}
    /\ \E u \in DOMAIN id_by_uuid :
          /\ id_by_uuid[u] + 1 = next_assigned_id
          /\ id_by_uuid[u] - 1 \in LocalTable.removed
          /\ id_by_uuid[u] - 2 \in DOMAIN LocalTable.nodes

\* C35: calculate_changed_nodes reports as added the configuration's
\* brokers whose id the members table does not hold, as updated those whose
\* id it holds with another record, as removed the table's ids that the
\* configuration does not hold; no id is in two of the three, a broker with
\* an unchanged record is in none, and a broker whose address alone changed
\* is in updated only
C35_DiffPartition ==
    \A cfg \in DiffConfigurations :
       LET d == calculate_changed_nodes(LocalTable, cfg)
           held == DOMAIN LocalTable.nodes
           ids(seq) == {seq[i].id : i \in 1..Len(seq)}
       IN /\ Range(d.added) = {b \in Range(cfg.brokers) : b.id \notin held}
          /\ Range(d.updated) =
                {b \in Range(cfg.brokers) :
                    b.id \in held /\ LocalTable.nodes[b.id].broker /= b}
          /\ Range(d.removed) = held \ CfgIds(cfg)
          /\ Len(d.added) = Cardinality(ids(d.added))
          /\ Len(d.updated) = Cardinality(ids(d.updated))
          /\ Len(d.removed) = Cardinality(Range(d.removed))
          /\ ids(d.added) \cap ids(d.updated) = {}
          /\ ids(d.added) \cap Range(d.removed) = {}
          /\ ids(d.updated) \cap Range(d.removed) = {}
          /\ \A b \in Range(cfg.brokers) :
                /\ (b.id \in held /\ LocalTable.nodes[b.id].broker = b)
                   => b.id \notin ids(d.added) \cup ids(d.updated)
                                  \cup Range(d.removed)
                /\ (/\ b.id \in held
                    /\ LocalTable.nodes[b.id].broker /= b
                    /\ LocalTable.nodes[b.id].broker
                          = [b EXCEPT !.rpc = LocalTable.nodes[b.id].broker.rpc])
                   => /\ b \in Range(d.updated)
                      /\ b.id \notin ids(d.added) \cup Range(d.removed)

\* the members tables hold two brokers, and a configuration removes one of
\* them, changes the address alone of the other and brings a third
C35_Witness ==
    /\ Cardinality(DOMAIN LocalTable.nodes) = 2
    /\ \E cfg \in DiffConfigurations :
          LET d == calculate_changed_nodes(LocalTable, cfg)
          IN /\ Len(d.added) = 1
             /\ Len(d.removed) = 1
             /\ Len(d.updated) = 1
             /\ LocalTable.nodes[d.updated[1].id].broker
                   = [d.updated[1] EXCEPT
                        !.rpc = LocalTable.nodes[d.updated[1].id].broker.rpc]

\* C36: the connection cache never holds an entry for this node's own id,
\* whatever was started, reconciled, joined or updated; a reconciliation
\* removes before it adds and adds before it updates (an id both removed and
\* added ends up connected, an id both added and updated ends up at the
\* updated address), leaves this node's id alone, and changes nothing when
\* it is applied a second time
C36_NoSelfConnection ==
    /\ SelfId \notin DOMAIN connection_cache
    /\ \A d \in CacheDiffs :
          LET once == update_connections(connection_cache, d)
              ids(seq) == {seq[i].id : i \in 1..Len(seq)}
          IN /\ SelfId \notin DOMAIN once
             /\ update_connections(once, d) = once
             /\ \A b \in Range(d.updated) :
                   b.id /= SelfId
                   => b.id \in DOMAIN once /\ once[b.id] = b.rpc
             /\ \A b \in Range(d.added) :
                   (b.id /= SelfId /\ b.id \notin ids(d.updated))
                   => b.id \in DOMAIN once /\ once[b.id] = b.rpc
             /\ \A id \in Range(d.removed) :
                   id \notin ids(d.added) \cup ids(d.updated)
                   => id \notin DOMAIN once

\* a join request carrying this node's own id went through the update path
\* on the leader while the cache held a connection to another broker
C36_Witness ==
    /\ last_op.op = "join"
    /\ last_op.id = SelfId
    /\ last_op.path = "update"
    /\ started
    /\ DOMAIN connection_cache /= {}

\* C37: a join reply of handle_join_request carries the unassigned id (-1)
\* when success is false and a non-negative id when success is true; when
\* the request named an id, a successful reply carries that id
C37_ReplyIdMatchesSuccess ==
    (last_op.op = "join" /\ last_op.reply.err = errc_success)
    => /\ ~last_op.reply.success => last_op.reply.id = unassigned_node_id
       /\ last_op.reply.success => last_op.reply.id >= 0
       /\ (last_op.reply.success /\ last_op.id >= 0)
          => last_op.reply.id = last_op.id

\* a request naming an id other than the one its uuid is bound to was
\* refused
C37_Witness ==
    /\ last_op.op = "join"
    /\ last_op.path = "id_mismatch"
    /\ last_op.reply.err = errc_success
    /\ ~last_op.reply.success
    /\ last_op.id >= 0

\* C38: a valid join request handled by a node that is not the leader,
\* while no leader is known or the leader is not a broker of the raft0
\* configuration, is answered no_leader_controller whatever the remote end
\* would have said, and registry, raft0, connection cache (no client is
\* made), update queue, log and members tables stay as they were
C38_NoLeaderNoEffect ==
    [][(/\ last_op'.op = "join"
        /\ joins' = joins
        /\ last_op'.path /= "invalid"
        /\ leader_id /= Some(SelfId)
        /\ \/ ~HasValue(leader_id)
           \/ ~contains_broker(raft0.cfg, Value(leader_id)))
       => /\ last_op'.reply = JoinError(errc_no_leader_controller)
          /\ UNCHANGED <<registry_vars, members_table, raft_vars,
                         connection_cache, queue_vars, log_vars>>]_vars

\* the leader is known by id but is no broker of the raft0 configuration,
\* and a valid request was answered no_leader_controller
C38_Witness ==
    /\ last_op.op = "join"
    /\ last_op.path = "forward"
    /\ HasValue(leader_id)
    /\ leader_id /= Some(SelfId)
    /\ ~contains_broker(raft0.cfg, Value(leader_id))
    /\ last_op.reply = JoinError(errc_no_leader_controller)
    /\ Value(leader_id) \notin DOMAIN connection_cache

\* C39: two handlers of the leader that both found a uuid unbound and both
\* replicated register_node_uuid(uuid, none) both see their command succeed
\* and both answer {true, id} with the one id bound to the uuid; the two
\* commands create one binding and move next_assigned_id by one
C39_ConcurrentAssignment ==
    /\ next_assigned_id = 1 + Cardinality(DOMAIN id_by_uuid)
    /\ \A u, v \in DOMAIN id_by_uuid : u /= v => id_by_uuid[u] /= id_by_uuid[v]
    /\ \A s \in JoinSlots :
          joins[s].pc = "applied"
          => /\ joins[s].err = errc_success
             /\ joins[s].req.node_uuid.val \in DOMAIN id_by_uuid
             /\ ResumeOutcome(joins[s].req, joins[s].err, connection_cache,
                              TRUE, "ok").reply
                   = JoinReply(errc_success, TRUE,
                               id_by_uuid[joins[s].req.node_uuid.val])
    /\ (last_op.op = "join" /\ last_op.reply.success)
       => /\ last_op.uuid.val \in DOMAIN id_by_uuid
          /\ last_op.reply.id = id_by_uuid[last_op.uuid.val]

\* one handler has answered with the assigned id and the other, whose
\* command for the same uuid was applied after it, is about to answer
C39_Witness ==
    /\ last_op.op = "join"
    /\ last_op.reply.success
    /\ ~last_op.found
    /\ \E s \in JoinSlots :
          /\ joins[s].pc = "applied"
          /\ joins[s].req.node_uuid = last_op.uuid
    /\ Cardinality(DOMAIN id_by_uuid) = 1
    /\ next_assigned_id = 2

\* C40: the update queue never holds more than max_updates_queue_size
\* events; an apply_update is left waiting only by a full queue, goes on
\* only once the queue has room, and room is made by get_node_updates alone
\* (with no consumer the wait never ends); with a consumer that keeps calling
\* get_node_updates and no abort, every waiting apply_update completes
C40_ApplierCompletes ==
    /\ [](Len(update_queue) <= max_updates_queue_size)
    /\ [][(pending_updates = <<>> /\ pending_updates' /= <<>>)
          => Len(update_queue') = max_updates_queue_size]_vars
    /\ [][(pending_updates /= <<>> /\ pending_updates' /= pending_updates)
          => Len(update_queue) < max_updates_queue_size]_vars
    /\ [][(pending_updates /= <<>> /\ Len(update_queue') < Len(update_queue))
          => last_op'.op = "get_node_updates"]_vars
    /\ (pending_updates /= <<>>) ~> (pending_updates = <<>>)

\* the consumer has just emptied a full queue behind which an apply_update
\* is waiting
C40_Witness ==
    /\ pending_updates /= <<>>
    /\ update_queue = <<>>
    /\ last_op.op = "get_node_updates"
    /\ Len(last_op.updates) = max_updates_queue_size

====
